---- MODULE Spec2Model ----
(***************************************************************************)
(* A model of hoot::OsmApiDbBulkWriter (OsmApiDbBulkWriter.cpp): the bulk  *)
(* element writer that streams nodes, ways and relations into per-table    *)
(* temporary sections, assembles them into one SQL script and, in online   *)
(* mode, reserves id ranges in the database and rewrites the script.       *)
(*                                                                         *)
(* Text is modelled as text: a line is a sequence of tokens (a token is a  *)
(* character or an unbroken word), a stream or file is a sequence of       *)
(* lines.  Numbers are written with QString::number (ToString) and read    *)
(* back with QString::toLong (toLong).                                     *)
(***************************************************************************)
EXTENDS Integers, Sequences, FiniteSets, TLC

VARIABLES
  writer,   \* writer id -> the fields of one OsmApiDbBulkWriter object
  db,       \* the database: last value of each id sequence
  caller    \* what the caller of the writers does: the elements it draws
            \* from, how many it writes, whether it reuses a writer or
            \* goes on after a failed write; and
            \* what it has seen: the database when it opened a writer and
            \* the elements it has submitted to it since

vars == <<writer, db, caller>>

----------------------------------------------------------------------------
(* Bounds *)

\* the caller makes at most MaxStream writePartial calls on one writer
MaxStream == 3

\* the same, for each of two writers that share a database
MaxConcStream == 2

\* the largest id value that is written to or read back from a script
MaxLong == 40

----------------------------------------------------------------------------
(* Characters and words of the text *)

BS == "\\"          \* QChar(92)
BSP == "<8>"        \* QChar(8), backspace
TAB == "\t"         \* QChar(9)
LF == "\n"          \* QChar(10)
VT == "<11>"        \* QChar(11), vertical tab
FF == "\f"          \* QChar(12)
CR == "\r"          \* QChar(13)
SP == " "
NOW == "<now>"       \* QDateTime::currentDateTime() rendered as text
TILE == "<tile>"     \* ApiDb::tileForPoint rendered as text

WhiteSpace == {SP, TAB, LF, VT, FF, CR}

EmptyLine == <<>>

\* the values a long read back from the script can take in this model
LongRange == 0..MaxLong

\* QString::number(n): the decimal numeral of n
number(n) == ToString(n)

Numerals == [n \in LongRange |-> number(n)]

\* QString::toLong(): the value of a decimal numeral, 0 for any other text
toLong(s) ==
  IF Len(s) = 1 /\ \E n \in LongRange : Numerals[n] = s[1]
    THEN CHOOSE n \in LongRange : Numerals[n] = s[1]
    ELSE 0

RECURSIVE SeqSum(_)
SeqSum(s) == IF s = <<>> THEN 0 ELSE Head(s) + SeqSum(Tail(s))

Range(s) == { s[i] : i \in DOMAIN s }

\* a fault: only the first occurrence of character c is replaced
replaceFirst(s, c, r) ==
  IF \A i \in DOMAIN s : s[i] # c THEN s
  ELSE LET k == CHOOSE i \in DOMAIN s : s[i] = c /\ \A j \in 1..(i-1) : s[j] # c
       IN SubSeq(s, 1, k-1) \o r \o SubSeq(s, k+1, Len(s))

\* QString::replace(QChar, QString): every occurrence of character c by r
RECURSIVE replace(_, _, _)
replace(s, c, r) ==
  IF s = <<>> THEN <<>>
  ELSE (IF Head(s) = c THEN r ELSE <<Head(s)>>) \o replace(Tail(s), c, r)

\* QString::split(sep): the parts between the separator tokens
RECURSIVE split(_, _)
split(s, seps) ==
  IF \A i \in DOMAIN s : s[i] \notin seps THEN <<s>>
  ELSE LET k == CHOOSE i \in DOMAIN s :
                  s[i] \in seps /\ \A j \in 1..(i-1) : s[j] \notin seps
       IN <<SubSeq(s, 1, k-1)>> \o split(SubSeq(s, k+1, Len(s)), seps)

\* QStringList::join(sep)
RECURSIVE join(_, _)
join(parts, sep) ==
  IF Len(parts) = 0 THEN <<>>
  ELSE IF Len(parts) = 1 THEN parts[1]
  ELSE parts[1] \o <<sep>> \o join(Tail(parts), sep)

\* QString::trimmed(): leading and trailing whitespace removed
RECURSIVE trimmed(_)
trimmed(s) ==
  IF s = <<>> THEN s
  ELSE IF Head(s) \in WhiteSpace THEN trimmed(Tail(s))
  ELSE IF s[Len(s)] \in WhiteSpace THEN trimmed(SubSeq(s, 1, Len(s)-1))
  ELSE s

\* a tab-separated row from its columns (each column a token sequence)
Row(cols) == join(cols, TAB)

Num(n) == <<number(n)>>

----------------------------------------------------------------------------
(* Table names (ApiDb::get...TableName) and the section list *)

Kinds == {"Node", "Way", "Relation"}

\* a fault: the sections listed in the order a stream of relations, ways and
\* nodes creates them
_createSectionNameListRelationsFirst ==
  << "byte_order_mark", "sequence_updates", "changesets",
     "current_relations", "current_relation_members", "current_relation_tags",
     "relations", "relation_members", "relation_tags",
     "current_ways", "current_way_nodes", "current_way_tags",
     "ways", "way_nodes", "way_tags",
     "current_nodes", "current_node_tags", "nodes", "node_tags" >>

\* a fault: the sequence_updates section is listed last
_createSectionNameListSequenceUpdatesLast ==
  << "byte_order_mark", "changesets",
     "current_nodes", "current_node_tags", "nodes", "node_tags",
     "current_ways", "current_way_nodes", "current_way_tags",
     "ways", "way_nodes", "way_tags",
     "current_relations", "current_relation_members", "current_relation_tags",
     "relations", "relation_members", "relation_tags", "sequence_updates" >>

_createSectionNameList ==
  << "byte_order_mark", "sequence_updates", "changesets",
     "current_nodes", "current_node_tags", "nodes", "node_tags",
     "current_ways", "current_way_nodes", "current_way_tags",
     "ways", "way_nodes", "way_tags",
     "current_relations", "current_relation_members", "current_relation_tags",
     "relations", "relation_members", "relation_tags" >>

SequenceName(kind) ==
  CASE kind = "Changeset" -> "changesets_id_seq"
    [] kind = "Node" -> "current_nodes_id_seq"
    [] kind = "Way" -> "current_ways_id_seq"
    [] kind = "Relation" -> "current_relations_id_seq"

\* "COPY <table> (<columns>) FROM stdin;"
CopyHeader(table, columns) ==
  <<"COPY", SP, table, SP, columns, SP, "FROM", SP, "stdin;">>

----------------------------------------------------------------------------
(* Pointers, maps, the bounding box *)

\* a shared_ptr: empty, or holding one object
NullPtr == <<>>
Ptr(v) == <<v>>
IsNull(p) == Len(p) = 0
Deref(p) == p[1]

EmptyMap == [k \in {} |-> 0]
\* a fault: no key is ever found
containsNever(m, k) == FALSE

contains(m, k) == k \in DOMAIN m
\* insert of a key the map does not hold; a held key keeps its value
insert(m, k, v) == IF k \in DOMAIN m THEN m ELSE m @@ (k :> v)
erase(m, k) == [j \in DOMAIN m \ {k} |-> m[j]]

\* geos::geom::Envelope: init() makes it null (maxx < minx)
NullEnvelope == [minx |-> 0, maxx |-> -1, miny |-> 0, maxy |-> -1]
isNull(env) == env.maxx < env.minx
expandToInclude(env, x, y) ==
  IF isNull(env) THEN [minx |-> x, maxx |-> x, miny |-> y, maxy |-> y]
  ELSE [minx |-> IF x < env.minx THEN x ELSE env.minx,
        maxx |-> IF x > env.maxx THEN x ELSE env.maxx,
        miny |-> IF y < env.miny THEN y ELSE env.miny,
        maxy |-> IF y > env.maxy THEN y ELSE env.maxy]

\* ApiDb::COORDINATE_SCALE
COORDINATE_SCALE == 10000000

\* The arithmetic of the conversion is done in units of 2^7 nanodegrees: the
\* degrees of this model are whole, COORDINATE_SCALE = 2^7 * 5^7, and 2^32 is
\* a multiple of the unit, so that no value leaves the integers of the checker
NanoUnit == 128
\* 2^32 in units
UIntRange == 33554432

\* (int) of an unsigned int given in units: the value modulo 2^32 in
\* [-2^31, 2^31), in nanodegrees
toInt(units) ==
  (IF units >= UIntRange \div 2 THEN units - UIntRange ELSE units) * NanoUnit

\* unsigned int _convertDegreesToNanodegrees(double), whose result the caller
\* stores in an int: round(degrees * COORDINATE_SCALE) converted to unsigned
\* int.  The conversion is undefined for a value outside [0, 2^32): a build
\* whose conversion instruction truncates gives the value modulo 2^32
\* ("wraps"), one whose instruction saturates gives 0 or UINT_MAX
\* ("saturates")
_convertDegreesToNanodegrees(st, degrees) ==
  LET units == degrees * (COORDINATE_SCALE \div NanoUnit)
  IN IF units >= 0 /\ units < UIntRange THEN toInt(units)
     ELSE IF st.conf.outOfRange = "wraps" THEN toInt(units % UIntRange)
     ELSE IF units < 0 THEN 0
     ELSE -1

\* QString::number((qlonglong)OsmApiDb::toOsmApiDbCoord(x)): the text of the
\* 64-bit value x * COORDINATE_SCALE, which for whole degrees is the text of
\* x followed by the seven zeros of COORDINATE_SCALE
toOsmApiDbCoord(x) == IF x = 0 THEN "0" ELSE ToString(x) \o "0000000"

----------------------------------------------------------------------------
(* Exceptions and aborts *)

\* the call in progress has thrown nothing and the process is alive
Live(st) == st.thrown = "none" /\ ~st.crashed

Throw(st, e) == IF Live(st) THEN [st EXCEPT !.thrown = e] ELSE st

\* a null shared_ptr is dereferenced (boost's assertion or the access through
\* the null pointer ends the process)
Crash(st) == IF Live(st) THEN [st EXCEPT !.crashed = TRUE] ELSE st

\* the next statement of a call: skipped once the call has thrown
Then(st, Op(_)) == IF Live(st) THEN Op(st) ELSE st

----------------------------------------------------------------------------
(* The writer object *)

_reset(st) ==
  [st EXCEPT
     !.writeStats = [nodesWritten |-> 0, nodeTagsWritten |-> 0,
                     waysWritten |-> 0, wayNodesWritten |-> 0,
                     wayTagsWritten |-> 0, relationsWritten |-> 0,
                     relationMembersWritten |-> 0,
                     relationMembersUnresolved |-> 0,
                     relationTagsWritten |-> 0],
     !.changesetData.changesetUserId = -1,
     !.changesetData.currentChangesetId = 1,
     !.changesetData.changesInChangeset = 0,
     !.changesetData.changesetsWritten = 0,
     !.idMappings = [currentNodeId |-> 1, nodeIdMap |-> NullPtr,
                     currentWayId |-> 1, wayIdMap |-> NullPtr,
                     currentRelationId |-> 1, relationIdMap |-> NullPtr],
     !.unresolvedRefs = [unresolvedWaynodeRefs |-> NullPtr,
                         unresolvedRelationRefs |-> NullPtr],
     !.outputSections = EmptyMap,
     !.sectionNames = <<>>]

setConfiguration(st, conf) ==
  [st EXCEPT !.changesetData.changesetUserId = conf.changesetUserId,
             !.mode = conf.mode,
             !.sqlFileCopyLocation = trimmed(conf.sqlFileCopyLocation),
             !.executeSql = conf.executeSql]

\* the object before the constructor's body runs: members default-constructed
DefaultObject(conf) ==
  [conf |-> conf,
   isOpen |-> FALSE,
   mode |-> "",
   executeSql |-> FALSE,
   sqlFileCopyLocation |-> <<>>,
   sqlFileCopy |-> <<>>,
   maxChangesetSize |-> conf.maxChangesetSize,
   writeStats |-> [nodesWritten |-> 0, nodeTagsWritten |-> 0,
                   waysWritten |-> 0, wayNodesWritten |-> 0,
                   wayTagsWritten |-> 0, relationsWritten |-> 0,
                   relationMembersWritten |-> 0,
                   relationMembersUnresolved |-> 0,
                   relationTagsWritten |-> 0],
   changesetData |-> [changesetUserId |-> 0, currentChangesetId |-> 0,
                      changesInChangeset |-> 0, changesetsWritten |-> 0,
                      changesetBounds |-> NullEnvelope],
   idMappings |-> [currentNodeId |-> 0, nodeIdMap |-> NullPtr,
                   currentWayId |-> 0, wayIdMap |-> NullPtr,
                   currentRelationId |-> 0, relationIdMap |-> NullPtr],
   unresolvedRefs |-> [unresolvedWaynodeRefs |-> NullPtr,
                       unresolvedRelationRefs |-> NullPtr],
   outputSections |-> EmptyMap,
   sectionNames |-> <<>>,
   outputUrl |-> "",
   tempFiles |-> <<>>,
   sqlOutputFile |-> <<>>,
   finalSqlOutputFile |-> <<>>,
   lockElementIdsSql |-> <<>>,
   pc |-> "idle",
   thrown |-> "none",
   crashed |-> FALSE,
   calls |-> 0]

OsmApiDbBulkWriter(conf) ==
  LET s1 == _reset(DefaultObject(conf))
      s2 == [s1 EXCEPT !.sectionNames = _createSectionNameList]
  IN setConfiguration(s2, conf)

----------------------------------------------------------------------------
(* Sections *)

\* a section: the lines written to its temporary file so far.  tempFiles
\* are the temporary files the writer has created on the disk, in the order
\* of their creation, each with the number of times it was removed; a file
\* is created with setAutoRemove(false), so that dropping its QTemporaryFile
\* object removes nothing
_createTable(st, tableName, tableHeader, addByteOrderMark) ==
  [st EXCEPT !.tempFiles = Append(@, [section |-> tableName, removals |-> 0]),
             !.outputSections =
     (tableName :> [lines |-> tableHeader, bom |-> addByteOrderMark,
                    removed |-> FALSE, file |-> Len(st.tempFiles) + 1])
       @@ st.outputSections]

\* a fault: the lines are written at the start of the section's data, not at
\* its end
EmitAtStart(st, table, lines) ==
  IF ~Live(st) THEN st
  ELSE IF table \notin DOMAIN st.outputSections THEN Crash(st)
  ELSE [st EXCEPT !.outputSections[table].lines =
          IF @ = <<>> THEN lines ELSE <<Head(@)>> \o lines \o Tail(@)]

\* *(_outputSections[table].second) << lines
Emit(st, table, lines) ==
  IF ~Live(st) THEN st
  ELSE IF table \notin DOMAIN st.outputSections THEN Crash(st)
  ELSE [st EXCEPT !.outputSections[table].lines = @ \o lines]

SectionLines(st, table) ==
  IF table \in DOMAIN st.outputSections
    THEN st.outputSections[table].lines ELSE <<>>

_escapeCopyToData(stringToOutput) ==
  LET s1 == replace(stringToOutput, BS, <<BS, BS>>)
      s2 == replace(s1, BSP, <<BS, "b">>)
      s3 == replace(s2, TAB, <<BS, "t">>)
      s4 == replace(s3, LF, <<BS, "n">>)
      s5 == replace(s4, VT, <<BS, "v">>)
      s6 == replace(s5, FF, <<BS, "f">>)
  IN replace(s6, CR, <<BS, "r">>)

_createNodeTables(st) ==
  LET s1 == _createTable(st, "current_nodes",
              <<CopyHeader("current_nodes", "(id, latitude, longitude, changeset_id, visible, \"timestamp\", tile, version)")>>, FALSE)
      s2 == _createTable(s1, "current_node_tags",
              <<CopyHeader("current_node_tags", "(node_id, k, v)")>>, FALSE)
      s3 == _createTable(s2, "nodes",
              <<CopyHeader("nodes", "(node_id, latitude, longitude, changeset_id, visible, \"timestamp\", tile, version, redaction_id)")>>, FALSE)
  IN _createTable(s3, "node_tags",
       <<CopyHeader("node_tags", "(node_id, version, k, v)")>>, FALSE)

_createWayTables(st) ==
  LET s1 == _createTable(st, "current_ways",
              <<CopyHeader("current_ways", "(id, changeset_id, \"timestamp\", visible, version)")>>, FALSE)
      s2 == _createTable(s1, "current_way_tags",
              <<CopyHeader("current_way_tags", "(way_id, k, v)")>>, FALSE)
      s3 == _createTable(s2, "current_way_nodes",
              <<CopyHeader("current_way_nodes", "(way_id, node_id, sequence_id)")>>, FALSE)
      s4 == _createTable(s3, "ways",
              <<CopyHeader("ways", "(way_id, changeset_id, \"timestamp\", version, visible, redaction_id)")>>, FALSE)
      s5 == _createTable(s4, "way_tags",
              <<CopyHeader("way_tags", "(way_id, version, k, v)")>>, FALSE)
  IN _createTable(s5, "way_nodes",
       <<CopyHeader("way_nodes", "(way_id, node_id, version, sequence_id)")>>, FALSE)

_createRelationTables(st) ==
  LET s1 == _createTable(st, "current_relations",
              <<CopyHeader("current_relations", "(id, changeset_id, \"timestamp\", visible, version)")>>, FALSE)
      s2 == _createTable(s1, "current_relation_tags",
              <<CopyHeader("current_relation_tags", "(relation_id, k, v)")>>, FALSE)
      s3 == _createTable(s2, "current_relation_members",
              <<CopyHeader("current_relation_members", "(relation_id, member_type, member_id, member_role, sequence_id)")>>, FALSE)
      s4 == _createTable(s3, "relations",
              <<CopyHeader("relations", "(relation_id, changeset_id, \"timestamp\", version, visible, redaction_id)")>>, FALSE)
      s5 == _createTable(s4, "relation_tags",
              <<CopyHeader("relation_tags", "(relation_id, version, k, v)")>>, FALSE)
  IN _createTable(s5, "relation_members",
       <<CopyHeader("relation_members", "(relation_id, member_type, member_id, member_role, version, sequence_id)")>>, FALSE)

----------------------------------------------------------------------------
(* Changesets *)

NullColumn == <<BS, "N">>      \* the text \N

_writeChangesetToTable(st) ==
  IF st.changesetData.changesetUserId = -1
    THEN Throw(st, "HootException: Invalid changeset user ID")
  ELSE
    LET cd == st.changesetData
        s1 == IF cd.currentChangesetId = 1
                THEN _createTable(st, "changesets",
                       <<CopyHeader("changesets", "(id, user_id, created_at, min_lat, max_lat, min_lon, max_lon, closed_at, num_changes)")>>, FALSE)
                ELSE st
        s2 == Emit(s1, "changesets",
                << Row(<< Num(cd.currentChangesetId),
                          Num(cd.changesetUserId),
                          <<NOW>>,
                          <<toOsmApiDbCoord(cd.changesetBounds.miny)>>,
                          <<toOsmApiDbCoord(cd.changesetBounds.maxy)>>,
                          <<toOsmApiDbCoord(cd.changesetBounds.minx)>>,
                          <<toOsmApiDbCoord(cd.changesetBounds.maxx)>>,
                          <<NOW>>,
                          Num(cd.changesInChangeset) >>) >>)
    IN Then(s2, LAMBDA s : [s EXCEPT !.changesetData.changesInChangeset = 0])

\* a fault: the changeset is rotated one change late
_incrementChangesInChangesetLate(st) ==
  LET s1 == [st EXCEPT !.changesetData.changesInChangeset = @ + 1]
  IN IF s1.changesetData.changesInChangeset > s1.maxChangesetSize
       THEN Then(_writeChangesetToTable(s1), LAMBDA s :
              [s EXCEPT !.changesetData.currentChangesetId = @ + 1,
                        !.changesetData.changesInChangeset = 0,
                        !.changesetData.changesetBounds = NullEnvelope,
                        !.changesetData.changesetsWritten = @ + 1])
       ELSE s1

_incrementChangesInChangeset(st) ==
  LET s1 == [st EXCEPT !.changesetData.changesInChangeset = @ + 1]
  IN IF s1.changesetData.changesInChangeset = s1.maxChangesetSize
       THEN Then(_writeChangesetToTable(s1), LAMBDA s :
              [s EXCEPT !.changesetData.currentChangesetId = @ + 1,
                        !.changesetData.changesInChangeset = 0,
                        !.changesetData.changesetBounds = NullEnvelope,
                        !.changesetData.changesetsWritten = @ + 1])
       ELSE s1

----------------------------------------------------------------------------
(* Ids and rows *)

\* a fault: the current id of the type is not advanced
_establishNewIdMappingNoAdvance(st, type, id) ==
  CASE type = "Node" ->
         [st EXCEPT !.idMappings.nodeIdMap =
                       Ptr(insert(Deref(@), id, st.idMappings.currentNodeId))]
    [] type = "Way" ->
         [st EXCEPT !.idMappings.wayIdMap =
                       Ptr(insert(Deref(@), id, st.idMappings.currentWayId))]
    [] type = "Relation" ->
         [st EXCEPT !.idMappings.relationIdMap =
                       Ptr(insert(Deref(@), id, st.idMappings.currentRelationId))]
    [] OTHER -> Throw(st, "NotImplementedException: Unsupported element type")

_establishNewIdMapping(st, type, id) ==
  CASE type = "Node" ->
         [st EXCEPT !.idMappings.nodeIdMap =
                       Ptr(insert(Deref(@), id, st.idMappings.currentNodeId)),
                    !.idMappings.currentNodeId = @ + 1]
    [] type = "Way" ->
         [st EXCEPT !.idMappings.wayIdMap =
                       Ptr(insert(Deref(@), id, st.idMappings.currentWayId)),
                    !.idMappings.currentWayId = @ + 1]
    [] type = "Relation" ->
         [st EXCEPT !.idMappings.relationIdMap =
                       Ptr(insert(Deref(@), id, st.idMappings.currentRelationId)),
                    !.idMappings.currentRelationId = @ + 1]
    [] OTHER -> Throw(st, "NotImplementedException: Unsupported element type")

_writeNodeToTables(st, node, nodeDbId) ==
  LET nodeYNanodegrees == _convertDegreesToNanodegrees(st, node.y)
      nodeXNanodegrees == _convertDegreesToNanodegrees(st, node.x)
      changesetId == st.changesetData.currentChangesetId
      cols == << Num(nodeDbId), Num(nodeYNanodegrees), Num(nodeXNanodegrees),
                 Num(changesetId), <<"t">>, <<NOW>>, <<TILE>>, <<"1">> >>
  IN IF nodeYNanodegrees < -900000000 \/ nodeYNanodegrees > 900000000
       THEN Throw(st, "HootException: Invalid latitude conversion")
     ELSE IF nodeXNanodegrees < -1800000000 \/ nodeXNanodegrees > 1800000000
       THEN Throw(st, "HootException: Invalid longitude conversion")
     ELSE Emit(Emit(st, "current_nodes", <<Row(cols)>>),
               "nodes", <<Row(cols \o <<NullColumn>>)>>)

RECURSIVE _writeTagsToTables(_, _, _, _, _)
_writeTagsToTables(st, tags, dbId, currentTable, historicalTable) ==
  IF tags = <<>> \/ ~Live(st) THEN st
  ELSE LET key == _escapeCopyToData(Head(tags)[1])
           value == _escapeCopyToData(Head(tags)[2])
           s1 == Emit(st, currentTable, <<Row(<<Num(dbId), key, value>>)>>)
           s2 == Emit(s1, historicalTable,
                      <<Row(<<Num(dbId), <<"1">>, key, value>>)>>)
       IN _writeTagsToTables(s2, Tail(tags), dbId, currentTable, historicalTable)

\* a fault: the way is written to current_ways only
_writeWayToTablesCurrentOnly(st, wayDbId) ==
  Emit(st, "current_ways",
       <<Row(<<Num(wayDbId), Num(st.changesetData.currentChangesetId),
               <<NOW>>, <<"t">>, <<"1">>>>)>>)

_writeWayToTables(st, wayDbId) ==
  LET changesetId == st.changesetData.currentChangesetId
      s1 == Emit(st, "current_ways",
              <<Row(<<Num(wayDbId), Num(changesetId), <<NOW>>, <<"t">>, <<"1">>>>)>>)
  IN Emit(s1, "ways",
       <<Row(<<Num(wayDbId), Num(changesetId), <<NOW>>, <<"1">>, <<"t">>,
               NullColumn>>)>>)

\* the loop of _writeWaynodesToTables from position nodeIndex on
RECURSIVE WaynodesLoop(_, _, _, _)
WaynodesLoop(st, dbWayId, waynodeIds, nodeIndex) ==
  IF nodeIndex > Len(waynodeIds) \/ ~Live(st) THEN st
  ELSE IF IsNull(st.idMappings.nodeIdMap) THEN Crash(st)
  ELSE IF contains(Deref(st.idMappings.nodeIdMap), waynodeIds[nodeIndex])
    THEN LET dbNodeId == Deref(st.idMappings.nodeIdMap)[waynodeIds[nodeIndex]]
             s1 == Emit(st, "current_way_nodes",
                     <<Row(<<Num(dbWayId), Num(dbNodeId), Num(nodeIndex)>>)>>)
             s2 == Emit(s1, "way_nodes",
                     <<Row(<<Num(dbWayId), Num(dbNodeId), <<"1">>,
                             Num(nodeIndex)>>)>>)
         IN WaynodesLoop(s2, dbWayId, waynodeIds, nodeIndex + 1)
  ELSE Throw(st, "NotImplementedException: Unresolved waynodes are not supported")

_writeWaynodesToTables(st, dbWayId, waynodeIds) ==
  WaynodesLoop(st, dbWayId, waynodeIds, 1)

_writeRelationToTables(st, relationDbId) ==
  LET changesetId == st.changesetData.currentChangesetId
      s1 == Emit(st, "current_relations",
              <<Row(<<Num(relationDbId), Num(changesetId), <<NOW>>, <<"t">>,
                      <<"1">>>>)>>)
  IN Emit(s1, "relations",
       <<Row(<<Num(relationDbId), Num(changesetId), <<NOW>>, <<"1">>, <<"t">>,
               NullColumn>>)>>)

_writeRelationMember(st, sourceRelationDbId, memberEntry, memberDbId, memberSequenceIndex) ==
  IF memberEntry.type \notin Kinds
    THEN Throw(st, "HootException: Unsupported element member type")
  ELSE
    LET memberType == <<memberEntry.type>>
        memberRole == _escapeCopyToData(memberEntry.role)
        s1 == Emit(st, "current_relation_members",
                <<Row(<<Num(sourceRelationDbId), memberType, Num(memberDbId),
                        memberRole, Num(memberSequenceIndex)>>)>>)
        s2 == Emit(s1, "relation_members",
                <<Row(<<Num(sourceRelationDbId), memberType, Num(memberDbId),
                        memberRole, <<"1">>, Num(memberSequenceIndex)>>)>>)
    IN Then(s2, LAMBDA s :
              [s EXCEPT !.writeStats.relationMembersWritten = @ + 1])

\* the id map of an element type
knownElementMap(st, type) ==
  CASE type = "Node" -> st.idMappings.nodeIdMap
    [] type = "Way" -> st.idMappings.wayIdMap
    [] type = "Relation" -> st.idMappings.relationIdMap

\* the loop of _writeRelationMembersToTables from position
\* memberSequenceIndex on
RECURSIVE RelationMembersLoop(_, _, _, _, _)
RelationMembersLoop(st, relationId, dbRelationId, relationMembers, memberSequenceIndex) ==
  IF memberSequenceIndex > Len(relationMembers) \/ ~Live(st) THEN st
  ELSE
    LET entry == relationMembers[memberSequenceIndex]
        memberElementId == <<entry.type, entry.id>>
    IN IF entry.type \notin Kinds
         THEN Throw(st, "HootException: Unsupported element member type")
       ELSE
         LET known == knownElementMap(st, entry.type)
             s1 ==
               IF ~IsNull(known) /\ contains(Deref(known), entry.id)
                 THEN _writeRelationMember(st, dbRelationId, entry,
                        Deref(known)[entry.id], memberSequenceIndex)
                 ELSE
                   LET refs == IF IsNull(st.unresolvedRefs.unresolvedRelationRefs)
                                 THEN EmptyMap
                                 ELSE Deref(st.unresolvedRefs.unresolvedRelationRefs)
                       relationRef ==
                         [sourceRelationId |-> relationId,
                          sourceDbRelationId |-> dbRelationId,
                          relationMemberData |-> entry,
                          relationMemberSequenceId |-> memberSequenceIndex]
                   IN [st EXCEPT !.unresolvedRefs.unresolvedRelationRefs =
                                    Ptr(insert(refs, memberElementId, relationRef))]
         IN RelationMembersLoop(s1, relationId, dbRelationId, relationMembers,
                                memberSequenceIndex + 1)

_writeRelationMembersToTables(st, relation) ==
  RelationMembersLoop(st, relation.id,
                      Deref(st.idMappings.relationIdMap)[relation.id],
                      relation.members, 1)

_checkUnresolvedReferences(st, elementId, elementDbId) ==
  LET refsPtr == st.unresolvedRefs.unresolvedRelationRefs
      s1 == IF ~IsNull(refsPtr) /\ contains(Deref(refsPtr), elementId)
              THEN LET relationRef == Deref(refsPtr)[elementId]
                       s0 == _writeRelationMember(st,
                               relationRef.sourceDbRelationId,
                               relationRef.relationMemberData, elementDbId,
                               relationRef.relationMemberSequenceId)
                   IN Then(s0, LAMBDA s :
                        [s EXCEPT !.unresolvedRefs.unresolvedRelationRefs =
                                     Ptr(erase(Deref(@), elementId))])
              ELSE st
  IN IF elementId[1] = "Node"
          /\ ~IsNull(s1.unresolvedRefs.unresolvedWaynodeRefs)
          /\ contains(Deref(s1.unresolvedRefs.unresolvedWaynodeRefs), elementId[2])
       THEN Throw(s1, "NotImplementedException: Found unresolved waynode ref")
       ELSE s1

----------------------------------------------------------------------------
(* writePartial *)

writePartialNode(st, n) ==
  LET s1 == [st EXCEPT !.changesetData.changesetBounds =
                          expandToInclude(@, n.x, n.y)]
      s2 == IF s1.writeStats.nodesWritten = 0
              THEN [_createNodeTables(s1) EXCEPT
                      !.idMappings.nodeIdMap = Ptr(EmptyMap)]
              ELSE s1
  IN IF contains(Deref(s2.idMappings.nodeIdMap), n.id)
       THEN Throw(s2, "NotImplementedException: Writer class does not support update operations")
     ELSE
       LET s3 == _establishNewIdMapping(s2, "Node", n.id)
           nodeDbId == Deref(s3.idMappings.nodeIdMap)[n.id]
           s4 == Then(s3, LAMBDA s : _writeNodeToTables(s, n, nodeDbId))
           s5 == Then(s4, LAMBDA s : _writeTagsToTables(s, n.tags, nodeDbId,
                                       "current_node_tags", "node_tags"))
           s6 == Then(s5, LAMBDA s :
                   [s EXCEPT !.writeStats.nodesWritten = @ + 1,
                             !.writeStats.nodeTagsWritten = @ + Len(n.tags)])
           s7 == Then(s6, _incrementChangesInChangeset)
       IN Then(s7, LAMBDA s :
                 _checkUnresolvedReferences(s, <<"Node", n.id>>, nodeDbId))

writePartialWay(st, w) ==
  LET s2 == IF st.writeStats.waysWritten = 0
              THEN [_createWayTables(st) EXCEPT
                      !.idMappings.wayIdMap = Ptr(EmptyMap)]
              ELSE st
  IN IF contains(Deref(s2.idMappings.wayIdMap), w.id)
       THEN Throw(s2, "NotImplementedException: Writer class does not support update operations")
     ELSE
       LET s3 == _establishNewIdMapping(s2, "Way", w.id)
           wayDbId == Deref(s3.idMappings.wayIdMap)[w.id]
           s4 == Then(s3, LAMBDA s : _writeWayToTables(s, wayDbId))
           s5 == Then(s4, LAMBDA s : _writeWaynodesToTables(s, wayDbId, w.nodes))
           s6 == Then(s5, LAMBDA s : _writeTagsToTables(s, w.tags, wayDbId,
                                       "current_way_tags", "way_tags"))
           s7 == Then(s6, LAMBDA s :
                   [s EXCEPT !.writeStats.waysWritten = @ + 1,
                             !.writeStats.wayTagsWritten = @ + Len(w.tags),
                             !.writeStats.wayNodesWritten = @ + Len(w.nodes)])
           s8 == Then(s7, _incrementChangesInChangeset)
       IN Then(s8, LAMBDA s :
                 _checkUnresolvedReferences(s, <<"Way", w.id>>, wayDbId))

writePartialRelation(st, r) ==
  LET s2 == IF st.writeStats.relationsWritten = 0
              THEN [_createRelationTables(st) EXCEPT
                      !.idMappings.relationIdMap = Ptr(EmptyMap)]
              ELSE st
  IN IF contains(Deref(s2.idMappings.relationIdMap), r.id)
       THEN Throw(s2, "NotImplementedException: Writer class does not support update operations")
     ELSE
       LET s3 == _establishNewIdMapping(s2, "Relation", r.id)
           relationDbId == Deref(s3.idMappings.relationIdMap)[r.id]
           s4 == Then(s3, LAMBDA s : _writeRelationToTables(s, relationDbId))
           s5 == Then(s4, LAMBDA s : _writeRelationMembersToTables(s, r))
           s6 == Then(s5, LAMBDA s : _writeTagsToTables(s, r.tags, relationDbId,
                                       "current_relation_tags", "relation_tags"))
           s7 == Then(s6, LAMBDA s :
                   [s EXCEPT !.writeStats.relationsWritten = @ + 1,
                             !.writeStats.relationTagsWritten = @ + Len(r.tags),
                             !.writeStats.relationMembersWritten =
                                @ + Len(r.members)])
           s8 == Then(s7, _incrementChangesInChangeset)
       IN Then(s8, LAMBDA s :
                 _checkUnresolvedReferences(s, <<"Relation", r.id>>, relationDbId))

----------------------------------------------------------------------------
(* The database (the injected driver) *)

Sequences == { SequenceName(k) : k \in Kinds \cup {"Changeset"} }

\* _database.getNextId: the next available value of a sequence
getNextId(dbv, kind) == dbv[SequenceName(kind)] + 1

SetvalLine(sequenceName, value) ==
  <<"SELECT", SP, "pg_catalog.setval('", sequenceName, "',", SP,
    number(value), ");">>

IsSetval(line) == Len(line) = 8 /\ line[3] = "pg_catalog.setval('"
SetvalValue(line) == toLong(<<line[7]>>)

\* the statements of sql executed in one transaction: setval sets the
\* sequence, so each sequence ends at the value of its last setval; a value
\* below 1 is out of the sequence's bounds and the transaction is rolled back
ExecLines(dbv, sql) ==
  [seq \in DOMAIN dbv |->
     LET sets == { i \in DOMAIN sql : IsSetval(sql[i]) /\ sql[i][4] = seq }
     IN IF sets = {} THEN dbv[seq]
        ELSE SetvalValue(sql[CHOOSE i \in sets : \A j \in sets : j <= i])]

execNoPrepare(dbv, sql) ==
  IF \E i \in DOMAIN sql : IsSetval(sql[i]) /\ SetvalValue(sql[i]) < 1
    THEN dbv
    ELSE ExecLines(dbv, sql)

----------------------------------------------------------------------------
(* finalizePartial: the sequence updates and the combined file *)

_writeSequenceUpdates(st, changesetId, nodeId, wayId, relationId) ==
  LET s1 == _createTable(st, "sequence_updates", <<>>, FALSE)
  IN IF ~st.conf.NDEBUG /\ changesetId <= 0 THEN Crash(s1)
     ELSE
       LET s2 == Emit(s1, "sequence_updates",
                   <<SetvalLine(SequenceName("Changeset"), changesetId)>>)
       IN IF ~st.conf.NDEBUG /\ nodeId <= 0 THEN Crash(s2)
          ELSE
            LET s3 == Emit(s2, "sequence_updates",
                        <<SetvalLine(SequenceName("Node"), nodeId)>>)
                s4 == IF wayId > 0
                        THEN Emit(s3, "sequence_updates",
                               <<SetvalLine(SequenceName("Way"), wayId)>>)
                        ELSE s3
            IN IF relationId > 0
                 THEN Emit(s4, "sequence_updates",
                        <<SetvalLine(SequenceName("Relation"), relationId),
                          EmptyLine, EmptyLine>>)
                 ELSE s4

TerminatorLine == <<BS, ".">>

\* the loop of _writeCombinedSqlFile over _sectionNames from position i on
RECURSIVE CombineLoop(_, _)
CombineLoop(st, i) ==
  IF i > Len(st.sectionNames) \/ ~Live(st) THEN st
  ELSE
    LET name == st.sectionNames[i]
    IN IF name \notin DOMAIN st.outputSections
         THEN CombineLoop(st, i + 1)
       ELSE IF st.mode = "online" /\ name = "sequence_updates"
         THEN CombineLoop(st, i + 1)
       ELSE
         LET s1 == IF name # "byte_order_mark" /\ name # "sequence_updates"
                     THEN Emit(st, name, <<TerminatorLine, EmptyLine, EmptyLine>>)
                     ELSE st
             \* readLine until the null line, each written with "\n"
             copied == s1.outputSections[name].lines \o <<EmptyLine>>
             s2 == [s1 EXCEPT !.sqlOutputFile = @ \o copied,
                              !.outputSections[name].removed = TRUE,
                              !.tempFiles[s1.outputSections[name].file].removals
                                 = @ + 1]
         IN CombineLoop(s2, i + 1)

\* a fault: the transaction of the script is not committed
_writeCombinedSqlFileUncommitted(st) ==
  CombineLoop([st EXCEPT !.sqlOutputFile = <<<<"BEGIN", SP, "TRANSACTION;">>>>], 1)

_writeCombinedSqlFile(st) ==
  LET s1 == [st EXCEPT !.sqlOutputFile = <<<<"BEGIN", SP, "TRANSACTION;">>>>]
      s2 == CombineLoop(s1, 1)
  IN Then(s2, LAMBDA s : [s EXCEPT !.sqlOutputFile = @ \o <<<<"COMMIT;">>>>])

----------------------------------------------------------------------------
(* The offset rewrite of online mode *)

\* QString::toLower() on the words of this model
LowerWord(t) ==
  CASE t = "Node" -> "node" [] t = "Way" -> "way"
    [] t = "Relation" -> "relation" [] t = "COPY" -> "copy" [] OTHER -> t
toLower(s) == [i \in DOMAIN s |-> LowerWord(s[i])]

\* line.contains("COPY"): a word of the line holds the text COPY
containsCOPY(line) == \E i \in DOMAIN line : line[i] = "COPY"

\* a fault: the offset is added to the next id, not to the current one
AddOffsetToNextId(lineParts, i, offset) ==
  [lineParts EXCEPT ![i + 1] = Num(toLong(@) + offset + 1)]

\* lineParts[i] = QString::number(lineParts[i].toLong() + offset), i from 0
AddOffset(lineParts, i, offset) ==
  [lineParts EXCEPT ![i + 1] = Num(toLong(@) + offset)]

\* the highest index of lineParts the branch of a table reads
HighestIndex(currentTableName) ==
  CASE currentTableName \in {"current_nodes", "nodes"} -> 3
    [] currentTableName \in {"current_relation_members", "relation_members"} -> 2
    [] currentTableName \in {"current_ways", "ways", "current_way_nodes",
                             "way_nodes", "current_relations", "relations"} -> 1
    [] OTHER -> 0

UpdatedLine(st, currentTableName, line) ==
  LET lineParts == split(line, {TAB})
      cs == st.changesetData.currentChangesetId
      nd == st.idMappings.currentNodeId
      wy == st.idMappings.currentWayId
      rl == st.idMappings.currentRelationId
  IN CASE currentTableName = "changesets" ->
            join(AddOffset(lineParts, 0, cs), TAB)
       [] currentTableName \in {"current_nodes", "nodes"} ->
            join(AddOffset(AddOffset(lineParts, 0, nd), 3, cs), TAB)
       [] currentTableName \in {"current_ways", "ways"} ->
            join(AddOffset(AddOffset(lineParts, 0, wy), 1, cs), TAB)
       [] currentTableName \in {"current_way_nodes", "way_nodes"} ->
            join(AddOffset(AddOffset(lineParts, 0, wy), 1, nd), TAB)
       [] currentTableName \in {"current_relations", "relations"} ->
            join(AddOffset(AddOffset(lineParts, 0, rl), 1, cs), TAB)
       [] currentTableName \in {"current_relation_members", "relation_members"} ->
            LET p1 == AddOffset(lineParts, 0, rl)
            IN IF toLower(lineParts[2]) = <<"node">>
                 THEN join(AddOffset(p1, 2, nd), TAB)
               ELSE IF toLower(lineParts[2]) = <<"way">>
                 THEN join(AddOffset(p1, 2, wy), TAB)
               ELSE join(p1, TAB)
       [] currentTableName \in {"current_node_tags", "node_tags"} ->
            join(AddOffset(lineParts, 0, nd), TAB)
       [] currentTableName \in {"current_way_tags", "way_tags"} ->
            join(AddOffset(lineParts, 0, wy), TAB)
       [] currentTableName \in {"current_relation_tags", "relation_tags"} ->
            join(AddOffset(lineParts, 0, rl), TAB)
       [] OTHER -> line

\* a table name read from a COPY line, as one of the table-name strings
TableNamed(text) == IF Len(text) = 1 THEN text[1] ELSE ""

\* n iterations of the do-while of _updateIdOffsetsInNewFile over the lines
\* of the input; the line read after the last is the null line
OffsetsIterations(st, input, n) ==
  LET \* line = inStream.readLine().trimmed() of each iteration
      read == [i \in 1..n |-> IF i <= Len(input) THEN trimmed(input[i]) ELSE <<>>]
      isCopy == [i \in 1..n |-> containsCOPY(read[i])]
      isRecord == [i \in 1..n |->
                     ~isCopy[i] /\ read[i] # <<>> /\ read[i] # TerminatorLine]
      \* currentTableName when iteration i begins: what the last iteration
      \* that read a COPY line or a line that is no record left in it
      currentTableName == [i \in 1..n |->
        LET set == { j \in 1..(i-1) : ~isRecord[j] }
        IN IF set = {} THEN ""
           ELSE LET j == CHOOSE k \in set : \A m \in set : m <= k
                IN IF isCopy[j] /\ Len(split(read[j], WhiteSpace)) >= 2
                     THEN TableNamed(trimmed(split(read[j], WhiteSpace)[2]))
                     ELSE ""]
      \* the iterations that index a list beyond its end
      fails == { i \in 1..n :
                   \/ isCopy[i] /\ Len(split(read[i], WhiteSpace)) < 2
                   \/ isRecord[i] /\ Len(split(read[i], {TAB}))
                                       < HighestIndex(currentTableName[i]) + 1 }
      last == IF fails = {} THEN n
              ELSE (CHOOSE i \in fails : \A j \in fails : i <= j) - 1
      written == [i \in 1..last |->
                    IF isRecord[i]
                      THEN UpdatedLine(st, currentTableName[i], read[i])
                      ELSE read[i]]
      s1 == [st EXCEPT !.finalSqlOutputFile = @ \o written]
  IN IF fails = {} THEN s1 ELSE Crash(s1)

\* a fault: the loop ends at the last line of the input
OffsetsLoopToLastLine(st, input) == OffsetsIterations(st, input, Len(input))

\* the do-while runs until it has read the null line, and writes a line in
\* every iteration
OffsetsLoop(st, input) == OffsetsIterations(st, input, Len(input) + 1)

_updateIdOffsetsInNewFile(st, inputSqlFile) ==
  OffsetsLoop([st EXCEPT !.finalSqlOutputFile = <<>>], inputSqlFile)

----------------------------------------------------------------------------
(* The calls of the public interface *)

\* _database.isSupported(url): the driver takes the urls of its scheme
isSupported(url) == url[1] = "osmapidb"

\* a fault: open does not look whether the database is open
openUnchecked(st, url) ==
  IF ~isSupported(url)
    THEN Throw(st, "HootException: Could not open URL")
  ELSE [st EXCEPT !.outputUrl = url, !.isOpen = TRUE]

\* open up to the call of _getLatestIdsFromDb
open(st, url) ==
  IF st.isOpen
    THEN Throw(st, "HootException: Database already open")
  ELSE IF ~isSupported(url)
    THEN Throw(st, "HootException: Could not open URL")
  ELSE [st EXCEPT !.outputUrl = url, !.isOpen = TRUE]

close(st) ==
  LET s1 == _reset([st EXCEPT !.isOpen = FALSE])
      s2 == [s1 EXCEPT !.sectionNames = _createSectionNameList]
  IN setConfiguration(s2, st.conf)

\* a fault: finalizePartial does not look whether anything was written
SomeDataWritten(st) == FALSE

NoDataWritten(st) ==
  /\ st.writeStats.nodesWritten = 0
  /\ st.writeStats.waysWritten = 0
  /\ st.writeStats.relationsWritten = 0

\* finalizePartial up to the combined file, and the check that opens _lockIds
finalizePartial(st) ==
  IF NoDataWritten(st) THEN st
  ELSE
    LET s1 == _createTable(st, "byte_order_mark", <<EmptyLine>>, TRUE)
        s2 == IF s1.changesetData.changesInChangeset > 0
                THEN _writeChangesetToTable(s1) ELSE s1
        s3 == Then(s2, LAMBDA s :
                IF s.changesetData.changesetsWritten = 0
                  THEN [s EXCEPT !.changesetData.changesetsWritten = @ + 1]
                  ELSE s)
        s4 == Then(s3, LAMBDA s :
                IF s.mode = "offline"
                  THEN _writeSequenceUpdates(s,
                         s.changesetData.currentChangesetId - 1,
                         s.idMappings.currentNodeId - 1,
                         s.idMappings.currentWayId - 1,
                         s.idMappings.currentRelationId - 1)
                  ELSE s)
        s5 == Then(s4, _writeCombinedSqlFile)
        s6 == Then(s5, LAMBDA s : [s EXCEPT !.finalSqlOutputFile = s.sqlOutputFile])
    IN Then(s6, LAMBDA s :
         IF s.mode = "online" /\ s.writeStats.nodesWritten = 0
           THEN Throw(s, "HootException: cannot lock out element ID range")
           ELSE s)

\* _lockIds after _getLatestIdsFromDb, up to the text of the transaction
_lockIds(st) ==
  LET s1 == _writeSequenceUpdates(st,
              st.changesetData.currentChangesetId
                + st.changesetData.changesetsWritten,
              st.idMappings.currentNodeId + st.writeStats.nodesWritten,
              st.idMappings.currentWayId + st.writeStats.waysWritten,
              st.idMappings.currentRelationId + st.writeStats.relationsWritten)
  IN Then(s1, LAMBDA s :
       [s EXCEPT !.lockElementIdsSql = s.outputSections["sequence_updates"].lines])

\* one _database.getNextId call of _getLatestIdsFromDb, and after the last
\* one the decrement of online mode
_getLatestIdsFromDb(st, dbv) ==
  CASE st.pc = "get_node" ->
         [st EXCEPT !.idMappings.currentNodeId = getNextId(dbv, "Node"),
                    !.pc = "get_way"]
    [] st.pc = "get_way" ->
         [st EXCEPT !.idMappings.currentWayId = getNextId(dbv, "Way"),
                    !.pc = "get_relation"]
    [] st.pc = "get_relation" ->
         [st EXCEPT !.idMappings.currentRelationId = getNextId(dbv, "Relation"),
                    !.pc = "get_changeset"]
    [] st.pc = "get_changeset" ->
         LET s1 == [st EXCEPT !.changesetData.currentChangesetId =
                                 getNextId(dbv, "Changeset")]
         IN IF s1.mode = "online"
              THEN [s1 EXCEPT !.idMappings.currentNodeId = @ - 1,
                              !.idMappings.currentWayId = @ - 1,
                              !.idMappings.currentRelationId = @ - 1,
                              !.changesetData.currentChangesetId = @ - 1,
                              !.pc = "lock"]
              ELSE [s1 EXCEPT !.pc = "idle"]

----------------------------------------------------------------------------
(* The inputs: elements, configurations, databases *)

Node(id, y, x, tags) == [type |-> "Node", id |-> id, y |-> y, x |-> x, tags |-> tags]
Way(id, nodes, tags) == [type |-> "Way", id |-> id, nodes |-> nodes, tags |-> tags]
Relation(id, members, tags) ==
  [type |-> "Relation", id |-> id, members |-> members, tags |-> tags]
Entry(type, id, role) == [type |-> type, id |-> id, role |-> role]

NoTags == <<>>
OneTag == << << <<"highway">>, <<"a", TAB, "b">> >> >>

NodeInputs ==
  { Node(-1, 1, 2, NoTags), Node(-2, 3, 4, OneTag), Node(-3, 91, 2, NoTags) }

WayInputs ==
  { Way(-1, <<-1>>, NoTags), Way(-2, <<-1, -2>>, OneTag) }

RelationInputs ==
  { Relation(-1, <<Entry("Way", -1, <<"outer">>)>>, NoTags),
    Relation(-2, <<Entry("Node", -1, <<"a">>), Entry("Node", -1, <<"b">>)>>, OneTag),
    Relation(-3, <<Entry("Relation", -3, <<>>)>>, NoTags) }

Elements == NodeInputs \cup WayInputs \cup RelationInputs

Conf(mode, maxChangesetSize, ndebug) ==
  [mode |-> mode, changesetUserId |-> 17, maxChangesetSize |-> maxChangesetSize,
   executeSql |-> TRUE, sqlFileCopyLocation |-> <<>>, NDEBUG |-> ndebug,
   outOfRange |-> "wraps"]

\* the configuration with a location for the copy of the script
WithCopy(conf) == [conf EXCEPT !.sqlFileCopyLocation = <<SP, "/tmp/copy.sql">>]

Database(changesets, nodes, ways, relations) ==
  (SequenceName("Changeset") :> changesets) @@ (SequenceName("Node") :> nodes)
    @@ (SequenceName("Way") :> ways) @@ (SequenceName("Relation") :> relations)

\* a new database, one whose element sequences have been used, one whose
\* changeset sequence has been used
FreshDb == Database(0, 0, 0, 0)
UsedDb == Database(0, 2, 1, 3)
UsedChangesetsDb == Database(2, 2, 0, 0)

\* the configurations and databases a single writer starts from
Starts ==
  { <<Conf(mode, m, TRUE), d>> :
      mode \in {"online", "offline"}, m \in {1, 2}, d \in {FreshDb, UsedDb} }
    \cup { <<Conf("offline", 2, FALSE), FreshDb>>,
           <<WithCopy(Conf("offline", 1, TRUE)), UsedChangesetsDb>>,
           <<WithCopy(Conf("online", 2, TRUE)), UsedChangesetsDb>> }

\* urls: a scheme and a database
DbUrl == <<"osmapidb", "osmapi_a">>
OtherDbUrl == <<"osmapidb", "osmapi_b">>
FileUrl == <<"file", "out.sql">>

\* a caller that has opened nothing and submitted nothing; one that persists
\* goes on writing to a writer after a writePartial call on it has thrown
Caller(writers, feed, maxCalls, reuses, persists, dbv) ==
  [feed |-> feed, urls |-> {DbUrl}, maxCalls |-> maxCalls, reuses |-> reuses,
   persists |-> persists,
   dbAtOpen |-> [i \in writers |-> dbv],
   submitted |-> [i \in writers |-> <<>>]]

----------------------------------------------------------------------------
(* The state machine *)

Init ==
  /\ \E start \in Starts :
       /\ writer = [i \in {1} |-> OsmApiDbBulkWriter(start[1])]
       /\ db = start[2]
  /\ caller = Caller({1}, Elements, MaxStream, FALSE, FALSE, db)

\* the state of writer i when a call of its interface begins
Called(i) == [writer[i] EXCEPT !.thrown = "none"]

OpenUrl(i, url) ==
  /\ ~writer[i].crashed
  /\ writer[i].pc \in {"idle", "done"}
  /\ caller.reuses \/ writer[i].calls = 0
  /\ LET s1 == open(Called(i), url)
     IN /\ writer' = [writer EXCEPT ![i] =
          IF ~Live(s1) THEN s1
          ELSE IF s1.mode = "offline" THEN [s1 EXCEPT !.pc = "get_node"]
          ELSE [s1 EXCEPT !.pc = "idle"]]
        /\ caller' = IF Live(s1) THEN [caller EXCEPT !.dbAtOpen[i] = db]
                                 ELSE caller
  /\ UNCHANGED db

Open(i) == \E url \in caller.urls : OpenUrl(i, url)

Close(i) ==
  /\ ~writer[i].crashed
  /\ writer[i].pc \in {"idle", "done"}
  /\ writer[i].isOpen
  /\ writer' = [writer EXCEPT ![i] =
       [close(Called(i)) EXCEPT !.pc = "idle", !.sqlOutputFile = <<>>,
                                !.finalSqlOutputFile = <<>>,
                                !.lockElementIdsSql = <<>>]]
  /\ caller' = [caller EXCEPT !.submitted[i] = <<>>]
  /\ UNCHANGED db

CanWrite(i) ==
  /\ ~writer[i].crashed
  /\ writer[i].pc = "idle"
  /\ writer[i].isOpen
  /\ writer[i].calls < caller.maxCalls
  /\ caller.persists
       \/ \A k \in DOMAIN caller.submitted[i] : caller.submitted[i][k].accepted

\* writer i returns from writePartial(e) in state st, or ends in it
Submit(i, e, st) ==
  /\ writer' = [writer EXCEPT ![i] = st]
  /\ caller' = [caller EXCEPT !.submitted[i] =
                  Append(@, [element |-> e, accepted |-> Live(st),
                             thrown |-> st.thrown])]

WriteNode(i) ==
  /\ CanWrite(i)
  /\ \E n \in { e \in caller.feed : e.type = "Node" } :
       Submit(i, n, writePartialNode([Called(i) EXCEPT !.calls = @ + 1], n))
  /\ UNCHANGED db

WriteWay(i) ==
  /\ CanWrite(i)
  /\ \E w \in { e \in caller.feed : e.type = "Way" } :
       Submit(i, w, writePartialWay([Called(i) EXCEPT !.calls = @ + 1], w))
  /\ UNCHANGED db

WriteRelation(i) ==
  /\ CanWrite(i)
  /\ \E r \in { e \in caller.feed : e.type = "Relation" } :
       Submit(i, r, writePartialRelation([Called(i) EXCEPT !.calls = @ + 1], r))
  /\ UNCHANGED db

FinalizePartial(i) ==
  /\ ~writer[i].crashed
  /\ writer[i].pc = "idle"
  /\ writer[i].isOpen
  /\ LET s1 == finalizePartial(Called(i))
     IN writer' = [writer EXCEPT ![i] =
          IF ~Live(s1) \/ NoDataWritten(s1) THEN [s1 EXCEPT !.pc = "done"]
          ELSE IF s1.mode = "online" THEN [s1 EXCEPT !.pc = "get_node"]
          ELSE [s1 EXCEPT !.pc = "exec"]]
  /\ UNCHANGED <<db, caller>>

GetLatestIdsFromDb(i) ==
  /\ ~writer[i].crashed
  /\ writer[i].pc \in {"get_node", "get_way", "get_relation", "get_changeset"}
  /\ writer' = [writer EXCEPT ![i] = _getLatestIdsFromDb(writer[i], db)]
  /\ UNCHANGED <<db, caller>>

\* a fault: the setval transaction is written but not executed before the
\* second pass begins
LockIdsUncommitted(i) ==
  /\ ~writer[i].crashed
  /\ writer[i].pc = "lock"
  /\ LET s1 == _lockIds(writer[i])
     IN writer' = [writer EXCEPT ![i] =
          IF Live(s1) THEN [s1 EXCEPT !.pc = "rewrite"]
          ELSE [s1 EXCEPT !.pc = "done"]]
  /\ UNCHANGED <<db, caller>>

LockIds(i) ==
  /\ ~writer[i].crashed
  /\ writer[i].pc = "lock"
  /\ LET s1 == _lockIds(writer[i])
     IN /\ db' = IF Live(s1) THEN execNoPrepare(db, s1.lockElementIdsSql) ELSE db
        /\ writer' = [writer EXCEPT ![i] =
             IF Live(s1) THEN [s1 EXCEPT !.pc = "rewrite"]
             ELSE [s1 EXCEPT !.pc = "done"]]
  /\ UNCHANGED caller

\* finalizePartial after _lockIds has returned: the second pass
UpdateIdOffsetsInNewFile(i) ==
  /\ ~writer[i].crashed
  /\ writer[i].pc = "rewrite"
  /\ LET s1 == _updateIdOffsetsInNewFile(writer[i], writer[i].sqlOutputFile)
     IN writer' = [writer EXCEPT ![i] =
          IF Live(s1) THEN [s1 EXCEPT !.pc = "exec"]
          ELSE [s1 EXCEPT !.pc = "done"]]
  /\ UNCHANGED <<db, caller>>

\* the end of finalizePartial: the copy of the script to the configured
\* location, then its execution against the database
ExecuteElementSql(i) ==
  /\ ~writer[i].crashed
  /\ writer[i].pc = "exec"
  /\ db' = IF writer[i].executeSql
             THEN execNoPrepare(db, writer[i].finalSqlOutputFile)
             ELSE db
  /\ writer' = [writer EXCEPT
       ![i].sqlFileCopy = IF writer[i].sqlFileCopyLocation # <<>>
                            THEN writer[i].finalSqlOutputFile ELSE @,
       ![i].pc = "done"]
  /\ UNCHANGED caller

Next ==
  \/ \E i \in DOMAIN writer : Open(i)
  \/ \E i \in DOMAIN writer : WriteNode(i)
  \/ \E i \in DOMAIN writer : WriteWay(i)
  \/ \E i \in DOMAIN writer : WriteRelation(i)
  \/ \E i \in DOMAIN writer : FinalizePartial(i)
  \/ \E i \in DOMAIN writer : GetLatestIdsFromDb(i)
  \/ \E i \in DOMAIN writer : LockIds(i)
  \/ \E i \in DOMAIN writer : UpdateIdOffsetsInNewFile(i)
  \/ \E i \in DOMAIN writer : ExecuteElementSql(i)
  \/ \E i \in DOMAIN writer : Close(i)

Spec == Init /\ [][Next]_vars

----------------------------------------------------------------------------
(* Two writers on one database *)

ConcElements ==
  { Node(-1, 1, 2, NoTags), Way(-1, <<-1>>, NoTags),
    Relation(-3, <<Entry("Relation", -3, <<>>)>>, NoTags) }

InitConc ==
  /\ writer = [i \in {1, 2} |-> OsmApiDbBulkWriter(Conf("online", 2, TRUE))]
  /\ db = UsedDb
  /\ caller = Caller({1, 2}, ConcElements, MaxConcStream, FALSE, FALSE, db)

SpecConc == InitConc /\ [][Next]_vars

----------------------------------------------------------------------------
(* Coordinates and user ids at and beyond their limits *)

\* the longest stream of SpecLimits
MaxLimitStream == 2

\* latitudes and longitudes in whole degrees: the limits, one degree beyond
\* them, and values whose nanodegrees do not fit in 32 bits (430 degrees are
\* 4,300,000,000 nanodegrees; 215 degrees fit in an unsigned int only)
LimitLatitudes == {-430, -91, -90, -1, 90, 91, 430}
LimitLongitudes == {-430, -181, -180, 180, 181, 215, 430}

LimitElements ==
  { Node(-1, lat, 2, NoTags) : lat \in LimitLatitudes }
    \cup { Node(-2, 1, lon, NoTags) : lon \in LimitLongitudes }
    \cup { Way(-1, <<-1>>, NoTags),
           Relation(-3, <<Entry("Relation", -3, <<>>)>>, NoTags) }

LimitConf(mode, changesetUserId, outOfRange) ==
  [Conf(mode, 2, TRUE) EXCEPT !.changesetUserId = changesetUserId,
                              !.outOfRange = outOfRange]

LimitConfs ==
  { LimitConf(mode, 17, b) :
      mode \in {"online", "offline"}, b \in {"wraps", "saturates"} }
    \cup { LimitConf(mode, u, "wraps") :
             mode \in {"online", "offline"}, u \in {-1, -2} }

InitLimits ==
  /\ \E conf \in LimitConfs : writer = [i \in {1} |-> OsmApiDbBulkWriter(conf)]
  /\ db = FreshDb
  /\ caller = Caller({1}, LimitElements, MaxLimitStream, FALSE, FALSE, db)

SpecLimits == InitLimits /\ [][Next]_vars

----------------------------------------------------------------------------
(* A writer that is closed and opened again *)

\* the most writePartial calls of SpecReuse, over all its sessions
MaxReuseStream == 2

ReuseElements ==
  { Node(-1, 1, 2, NoTags), Node(-2, 3, 4, OneTag), Way(-1, <<-1>>, NoTags),
    Relation(-3, <<Entry("Relation", -3, <<>>)>>, NoTags) }

InitReuse ==
  /\ \E mode \in {"online", "offline"} :
       writer = [i \in {1} |-> OsmApiDbBulkWriter(Conf(mode, 2, TRUE))]
  /\ db \in {FreshDb, UsedDb}
  /\ caller = [Caller({1}, ReuseElements, MaxReuseStream, TRUE, FALSE, db)
                 EXCEPT !.urls = {DbUrl, OtherDbUrl, FileUrl}]

SpecReuse == InitReuse /\ [][Next]_vars

----------------------------------------------------------------------------
(* A caller that goes on after a failed write *)

\* the longest stream of SpecPersist
MaxPersistStream == 3

\* a node, a node beyond the latitude limit, a way of the first node, a
\* relation of that way and a relation of the second node
PersistElements ==
  { Node(-1, 1, 2, NoTags), Node(-3, 91, 2, NoTags), Way(-1, <<-1>>, NoTags),
    Relation(-1, <<Entry("Way", -1, <<"outer">>)>>, NoTags),
    Relation(-2, <<Entry("Node", -3, <<"a">>)>>, NoTags) }

\* either mode, on a new database or on one that has changesets; the caller
\* catches what writePartial throws and writes the next element
InitPersist ==
  /\ \E mode \in {"online", "offline"} :
       writer = [i \in {1} |-> OsmApiDbBulkWriter(Conf(mode, 2, TRUE))]
  /\ db \in {FreshDb, UsedChangesetsDb}
  /\ caller = Caller({1}, PersistElements, MaxPersistStream, FALSE, TRUE, db)

SpecPersist == InitPersist /\ [][Next]_vars

----------------------------------------------------------------------------
(* Tag values and roles that hold the words of the script *)

\* the longest stream of SpecText
MaxTextStream == 3

\* tags whose value ends in a space, and whose value holds the word COPY
PaddedTag == << << <<"name">>, <<"shop", SP>> >> >>
CopyTag == << << <<"name">>, <<"COPY", SP, "SHOP">> >> >>

TextElements ==
  { Node(-1, 1, 2, PaddedTag), Node(-2, 3, 4, CopyTag),
    Way(-1, <<-1>>, CopyTag),
    Relation(-1, <<Entry("Node", -1, <<"COPY">>)>>, PaddedTag) }

\* a database all of whose sequences have been used
UsedAllDb == Database(1, 2, 1, 3)

InitText ==
  /\ writer = [i \in {1} |-> OsmApiDbBulkWriter(Conf("online", 2, TRUE))]
  /\ db \in {FreshDb, UsedAllDb}
  /\ caller = Caller({1}, TextElements, MaxTextStream, FALSE, FALSE, db)

SpecText == InitText /\ [][Next]_vars

----------------------------------------------------------------------------
(* The escaping of tag keys, tag values and roles, on its own *)

\* the longest text escaped in SpecEscape
MaxText == 2

\* the characters of the texts: backslash, the six control characters that
\* are escaped, and a letter that the escapes write
EscapeAlphabet == {BS, BSP, TAB, LF, VT, FF, CR, "t"}

Texts == UNION { [1..k -> EscapeAlphabet] : k \in 0..MaxText }

\* two texts that a tag key, a tag value or a role may be, not yet escaped
InitEscape ==
  /\ writer = <<>>
  /\ db = FreshDb
  /\ \E a, b \in Texts : caller = [a |-> a, b |-> b, escaped |-> <<>>]

\* _escapeCopyToData applied to the two texts and to the two joined
EscapeCopyToData ==
  /\ caller.escaped = <<>>
  /\ caller' = [caller EXCEPT !.escaped =
                  [a |-> _escapeCopyToData(caller.a),
                   b |-> _escapeCopyToData(caller.b),
                   ab |-> _escapeCopyToData(caller.a \o caller.b)]]
  /\ UNCHANGED <<writer, db>>

SpecEscape == InitEscape /\ [][EscapeCopyToData]_vars

----------------------------------------------------------------------------
(* Reading sections and scripts *)

IsCopyHeader(line) == Len(line) >= 3 /\ line[1] = "COPY"

\* the lines of a text between the COPY header of a table and the
\* terminator that follows it (the end of the text, if none follows)
TableLines(text, table) ==
  LET heads == { i \in DOMAIN text :
                   IsCopyHeader(text[i]) /\ text[i][3] = table }
  IN IF heads = {} THEN <<>>
     ELSE LET h == CHOOSE i \in heads : \A j \in heads : i <= j
              ends == { j \in (h+1)..Len(text) : text[j] = TerminatorLine }
              e == IF ends = {} THEN Len(text) + 1
                   ELSE CHOOSE j \in ends : \A k \in ends : j <= k
          IN SubSeq(text, h + 1, e - 1)

\* the rows of a table in a text, each split into its columns
TableRows(text, table) ==
  LET lines == TableLines(text, table)
  IN [k \in DOMAIN lines |-> split(lines[k], {TAB})]

\* column c of the rows, read as numbers
Column(rows, c) == [k \in DOMAIN rows |-> toLong(rows[k][c])]

Max(S) == CHOOSE x \in S : \A y \in S : y <= x

\* the tables whose first column is the id of a changeset, node, way, relation
IdKinds == Kinds \cup {"Changeset"}

IdTables(kind) ==
  CASE kind = "Changeset" -> {"changesets"}
    [] kind = "Node" -> {"current_nodes", "nodes"}
    [] kind = "Way" -> {"current_ways", "ways"}
    [] kind = "Relation" -> {"current_relations", "relations"}

\* the ids of a kind that the rows of a script use
IdsUsed(script, kind) ==
  UNION { Range(Column(TableRows(script, t), 1)) : t \in IdTables(kind) }

\* the values that the setval statements of sql give a sequence
SetvalValues(sql, kind) ==
  { SetvalValue(sql[k]) : k \in { j \in DOMAIN sql :
      IsSetval(sql[j]) /\ sql[j][4] = SequenceName(kind) } }

\* writer i has finalized: its script is complete
Scripted(i) ==
  /\ writer[i].pc \in {"exec", "done"}
  /\ Live(writer[i])
  /\ ~NoDataWritten(writer[i])

\* every writePartial call on writer i since it was opened has returned
AllAccepted(i) ==
  \A k \in DOMAIN caller.submitted[i] : caller.submitted[i][k].accepted

\* the elements of a type submitted to writer i
SubmittedOf(i, type) ==
  { k \in DOMAIN caller.submitted[i] :
      caller.submitted[i][k].element.type = type }

----------------------------------------------------------------------------
(* C1 *)

\* C1: two writers in online mode that have finalized against the same
\* database put disjoint sets of final ids in their scripts, for changesets,
\* nodes, ways and relations, whatever the interleaving of their reads of the
\* sequences and their setval transactions.
C1_DisjointFinalIds ==
  \A i, j \in DOMAIN writer :
    (i < j /\ Scripted(i) /\ Scripted(j)
       /\ writer[i].mode = "online" /\ writer[j].mode = "online"
       /\ AllAccepted(i) /\ AllAccepted(j))
    => \A kind \in IdKinds :
         IdsUsed(writer[i].finalSqlOutputFile, kind)
           \cap IdsUsed(writer[j].finalSqlOutputFile, kind) = {}

----------------------------------------------------------------------------
(* C2, C3 *)

\* the current_X table of a kind (the changesets table for changesets)
MainTable(kind) ==
  CASE kind = "Changeset" -> "changesets"
    [] kind = "Node" -> "current_nodes"
    [] kind = "Way" -> "current_ways"
    [] kind = "Relation" -> "current_relations"

\* C2: in online mode the value the reservation sets a sequence to is at
\* least the largest final id of that kind in the rewritten script, for
\* changesets, nodes, ways and relations.
C2_ReservedRangeCoversIds ==
  \A i \in DOMAIN writer :
    (Scripted(i) /\ writer[i].mode = "online" /\ AllAccepted(i))
    => \A kind \in IdKinds :
         \A id \in IdsUsed(writer[i].finalSqlOutputFile, kind) :
           \E v \in SetvalValues(writer[i].lockElementIdsSql, kind) : v >= id

\* C3: in offline mode the script sets the sequence of each kind it has rows
\* of to start_id + count - 1, the largest id of that kind its rows use.
C3_OfflineSetvalIsLargestId ==
  \A i \in DOMAIN writer :
    (Scripted(i) /\ writer[i].mode = "offline" /\ AllAccepted(i))
    => \A kind \in IdKinds :
         LET script == writer[i].finalSqlOutputFile
             used == IdsUsed(script, kind)
             count == Len(TableRows(script, MainTable(kind)))
             start_id == getNextId(caller.dbAtOpen[i], kind)
         IN used # {} =>
              /\ SetvalValues(script, kind) = {start_id + count - 1}
              /\ Max(used) = start_id + count - 1

----------------------------------------------------------------------------
(* C4 *)

\* the local id writer i assigned to the element of a type and source id
LocalId(i, type, id) == Deref(knownElementMap(writer[i], type))[id]

\* the element of a type and source id is in the stream given to writer i
InStream(i, type, id) ==
  \E k \in DOMAIN caller.submitted[i] :
    /\ caller.submitted[i][k].element.type = type
    /\ caller.submitted[i][k].element.id = id

\* the rows of a member table for member m of the relation with local id rel
MemberRows(rows, rel, seqCol, m) ==
  { k \in DOMAIN rows :
      toLong(rows[k][1]) = rel /\ toLong(rows[k][seqCol]) = m }

\* C4: for every member reference of a relation of the stream whose target
\* element is in the stream, before or after the relation, the assembled
\* script has exactly one current_relation_members row and exactly one
\* relation_members row, and their member_id is the local id of the target.
C4_OneRowPerResolvableMember ==
  \A i \in DOMAIN writer :
    (Scripted(i) /\ AllAccepted(i))
    => \A k \in SubmittedOf(i, "Relation") :
         LET r == caller.submitted[i][k].element
             rel == LocalId(i, "Relation", r.id)
             current == TableRows(writer[i].sqlOutputFile,
                                  "current_relation_members")
             history == TableRows(writer[i].sqlOutputFile, "relation_members")
         IN \A m \in DOMAIN r.members :
              InStream(i, r.members[m].type, r.members[m].id)
              => LET target == LocalId(i, r.members[m].type, r.members[m].id)
                     cur == MemberRows(current, rel, 5, m)
                     his == MemberRows(history, rel, 6, m)
                 IN /\ Cardinality(cur) = 1
                    /\ Cardinality(his) = 1
                    /\ \A c \in cur : toLong(current[c][3]) = target
                    /\ \A h \in his : toLong(history[h][3]) = target

----------------------------------------------------------------------------
(* C5 *)

\* the stream given to writer i holds nodes only
OnlyNodes(i) ==
  \A k \in DOMAIN caller.submitted[i] :
    caller.submitted[i][k].element.type = "Node"

\* the first final node id of writer i: start_node_id in offline mode, the
\* reserved base (the value read from the sequence, decremented) plus one in
\* online mode
FirstNodeId(i) ==
  IF writer[i].mode = "offline"
    THEN getNextId(caller.dbAtOpen[i], "Node")
    ELSE (getNextId(caller.dbAtOpen[i], "Node") - 1) + 1

\* C5: for a stream of N nodes with distinct source ids, all accepted, the
\* final script has exactly N current_nodes rows and N nodes rows, and the
\* first column of each holds the N consecutive ids from the first node id.
C5_NodeRowsAndIds ==
  \A i \in DOMAIN writer :
    (Scripted(i) /\ AllAccepted(i) /\ OnlyNodes(i))
    => LET N == Len(caller.submitted[i])
       IN \A t \in {"current_nodes", "nodes"} :
            LET rows == TableRows(writer[i].finalSqlOutputFile, t)
            IN /\ Len(rows) = N
               /\ Range(Column(rows, 1)) = FirstNodeId(i)..(FirstNodeId(i) + N - 1)

\* two nodes written in online mode to a database whose node sequence is at 2
C5_Witness ==
  \E i \in DOMAIN writer :
    /\ Scripted(i) /\ AllAccepted(i) /\ OnlyNodes(i)
    /\ writer[i].mode = "online"
    /\ Len(caller.submitted[i]) = 2
    /\ caller.dbAtOpen[i][SequenceName("Node")] = 2

----------------------------------------------------------------------------
(* C6 *)

\* each current_X table with its historical table: the columns that hold
\* ids (current column, historical column) and the historical version column
CurrentAndHistory ==
  { [current |-> "current_nodes", history |-> "nodes",
     ids |-> {<<1, 1>>, <<4, 4>>}, version |-> 8],
    [current |-> "current_node_tags", history |-> "node_tags",
     ids |-> {<<1, 1>>}, version |-> 2],
    [current |-> "current_ways", history |-> "ways",
     ids |-> {<<1, 1>>, <<2, 2>>}, version |-> 4],
    [current |-> "current_way_nodes", history |-> "way_nodes",
     ids |-> {<<1, 1>>, <<2, 2>>, <<3, 4>>}, version |-> 3],
    [current |-> "current_way_tags", history |-> "way_tags",
     ids |-> {<<1, 1>>}, version |-> 2],
    [current |-> "current_relations", history |-> "relations",
     ids |-> {<<1, 1>>, <<2, 2>>}, version |-> 4],
    [current |-> "current_relation_members", history |-> "relation_members",
     ids |-> {<<1, 1>>, <<3, 3>>, <<5, 6>>}, version |-> 5],
    [current |-> "current_relation_tags", history |-> "relation_tags",
     ids |-> {<<1, 1>>}, version |-> 2] }

\* the rows written to a section of writer i so far
SectionRows(i, table) == TableRows(SectionLines(writer[i], table), table)

\* C6: after any sequence of writes every row of a current_X section has a
\* row with the same ids and version 1 in the historical section, and the two
\* sections hold the same number of rows.
C6_CurrentRowsHaveHistory ==
  \A i \in DOMAIN writer :
    \A p \in CurrentAndHistory :
      LET current == SectionRows(i, p.current)
          history == SectionRows(i, p.history)
      IN /\ Len(current) = Len(history)
         /\ \A c \in DOMAIN current :
              \E h \in DOMAIN history :
                /\ \A id \in p.ids : history[h][id[2]] = current[c][id[1]]
                /\ history[h][p.version] = <<"1">>

\* a node, a way with a way node and a relation with two member rows and a
\* tag have been written
C6_Witness ==
  \E i \in DOMAIN writer :
    /\ Len(SectionRows(i, "current_nodes")) = 1
    /\ Len(SectionRows(i, "current_way_nodes")) = 1
    /\ Len(SectionRows(i, "current_relation_members")) = 2
    /\ Len(SectionRows(i, "current_relation_tags")) = 1

----------------------------------------------------------------------------
(* C7 *)

\* the canonical order of the sections of a script
CanonicalOrder ==
  << "byte_order_mark", "sequence_updates", "changesets",
     "current_nodes", "current_node_tags", "nodes", "node_tags",
     "current_ways", "current_way_nodes", "current_way_tags",
     "ways", "way_nodes", "way_tags",
     "current_relations", "current_relation_members", "current_relation_tags",
     "relations", "relation_members", "relation_tags" >>

CanonicalIndex(table) ==
  CHOOSE k \in DOMAIN CanonicalOrder : CanonicalOrder[k] = table

\* the table whose row line k of a script is: the table of the COPY header
\* that opens the block of line k, sequence_updates for a setval statement,
\* "" for a line that is no row
RowTable(script, k) ==
  LET line == script[k]
      heads == { h \in 1..(k-1) : IsCopyHeader(script[h]) }
      ends == { j \in 1..(k-1) : script[j] = TerminatorLine }
  IN IF IsSetval(line) THEN "sequence_updates"
     ELSE IF line = EmptyLine \/ line = TerminatorLine \/ IsCopyHeader(line)
            \/ heads = {}
       THEN ""
     ELSE IF ends # {} /\ Max(ends) > Max(heads) THEN ""
     ELSE script[Max(heads)][3]

RowTables(script) == [k \in DOMAIN script |-> RowTable(script, k)]

\* C7: in the assembled script every row of a table precedes every row of
\* the tables that come after it in the canonical order.
C7_CanonicalSectionOrder ==
  \A i \in DOMAIN writer :
    LET tables == RowTables(writer[i].sqlOutputFile)
        rows == { k \in DOMAIN tables : tables[k] # "" }
        index == [k \in rows |-> CanonicalIndex(tables[k])]
    IN \A j, k \in rows : j < k => index[j] <= index[k]

\* a relation, then a node, then a way were written in offline mode, so the
\* sections of the relation were created first, and the script has rows of
\* all three and the setval statements
C7_Witness ==
  \E i \in DOMAIN writer :
    /\ Scripted(i) /\ AllAccepted(i)
    /\ writer[i].mode = "offline"
    /\ Len(caller.submitted[i]) = 3
    /\ caller.submitted[i][1].element.type = "Relation"
    /\ caller.submitted[i][2].element.type = "Node"
    /\ caller.submitted[i][3].element.type = "Way"
    /\ {"sequence_updates", "changesets", "current_nodes", "ways", "relations"}
         \subseteq Range(RowTables(writer[i].sqlOutputFile))

----------------------------------------------------------------------------
(* C8 *)

\* the sections that hold rows derived from the elements of a type
TablesOf(type) ==
  CASE type = "Node" ->
         {"current_nodes", "current_node_tags", "nodes", "node_tags"}
    [] type = "Way" ->
         {"current_ways", "current_way_nodes", "current_way_tags",
          "ways", "way_nodes", "way_tags"}
    [] type = "Relation" ->
         {"current_relations", "current_relation_members",
          "current_relation_tags", "relations", "relation_members",
          "relation_tags"}

MemberTables == {"current_relation_members", "relation_members"}

\* the positions of the rows derived from the element with a local id
RowsOf(rows, id) == { k \in DOMAIN rows : toLong(rows[k][1]) = id }

\* in the section of a table of writer i, the rows of element a of the
\* stream come before the rows of element b
RowsBefore(i, table, a, b) ==
  LET rows == SectionRows(i, table)
      A == caller.submitted[i][a].element
      B == caller.submitted[i][b].element
  IN \A ra \in RowsOf(rows, LocalId(i, A.type, A.id)) :
       \A rb \in RowsOf(rows, LocalId(i, B.type, B.id)) : ra < rb

\* the pairs of accepted elements of one type, submitted in this order
OrderedPairs(i) ==
  { p \in (DOMAIN caller.submitted[i]) \X (DOMAIN caller.submitted[i]) :
      /\ p[1] < p[2]
      /\ caller.submitted[i][p[1]].accepted
      /\ caller.submitted[i][p[2]].accepted
      /\ caller.submitted[i][p[1]].element.type
           = caller.submitted[i][p[2]].element.type }

----------------------------------------------------------------------------
(* C9 *)

\* C9: every changeset row has num_changes <= the maximum changeset size,
\* and once the script is assembled the num_changes of its changeset rows
\* add up to nodes written + ways written + relations written.
C9_ChangesetSizes ==
  \A i \in DOMAIN writer :
    /\ \A n \in Range(Column(SectionRows(i, "changesets"), 9)) :
         n <= writer[i].maxChangesetSize
    /\ Scripted(i)
       => SeqSum(Column(TableRows(writer[i].sqlOutputFile, "changesets"), 9))
            = writer[i].writeStats.nodesWritten
                + writer[i].writeStats.waysWritten
                + writer[i].writeStats.relationsWritten

\* three elements were written with a maximum changeset size of 2: one
\* changeset row was written on rotation and one at finalize
C9_Witness ==
  \E i \in DOMAIN writer :
    /\ Scripted(i)
    /\ writer[i].maxChangesetSize = 2
    /\ Column(TableRows(writer[i].sqlOutputFile, "changesets"), 9) = <<2, 1>>

----------------------------------------------------------------------------
(* C10 *)

\* writer i is between operations: a writePartial or finalizePartial call
\* has returned
BetweenOperations(i) ==
  /\ Live(writer[i])
  /\ writer[i].isOpen
  /\ writer[i].pc \in {"idle", "done"}
  /\ writer[i].calls >= 1

\* C10: between operations the bounding box of the current changeset is
\* empty if and only if its changes count is 0, and the ids of the changeset
\* rows written are consecutive from the first.
C10_BoundsAndDenseIds ==
  \A i \in DOMAIN writer :
    BetweenOperations(i)
    => /\ isNull(writer[i].changesetData.changesetBounds)
            <=> writer[i].changesetData.changesInChangeset = 0
       /\ LET ids == Column(SectionRows(i, "changesets"), 1)
          IN \A k \in DOMAIN ids : ids[k] = ids[1] + k - 1

----------------------------------------------------------------------------
(* C11 *)

UpdateNotSupported ==
  "NotImplementedException: Writer class does not support update operations"

\* the k-th element submitted to writer i has the kind and the source id of
\* an element that an earlier writePartial call accepted
WrittenBefore(i, k) ==
  \E j \in 1..(k - 1) :
    /\ caller.submitted[i][j].accepted
    /\ caller.submitted[i][j].element.type = caller.submitted[i][k].element.type
    /\ caller.submitted[i][j].element.id = caller.submitted[i][k].element.id

\* C11: a writePartial call for an element whose source id was already
\* written for the same kind throws the exception of an update, and a call
\* for a source id not yet written for the kind does not throw it, whatever
\* was written for the other kinds.
C11_DuplicateIsRejectedPerKind ==
  \A i \in DOMAIN writer :
    \A k \in DOMAIN caller.submitted[i] :
      WrittenBefore(i, k) <=> caller.submitted[i][k].thrown = UpdateNotSupported

\* source id -1 was accepted as a node and as a way, and its second way
\* was rejected
C11_Witness ==
  \E i \in DOMAIN writer :
    /\ Len(caller.submitted[i]) = 3
    /\ [k \in 1..3 |-> caller.submitted[i][k].element.type]
         = <<"Node", "Way", "Way">>
    /\ \A k \in 1..3 : caller.submitted[i][k].element.id = -1
    /\ [k \in 1..3 |-> caller.submitted[i][k].accepted] = <<TRUE, TRUE, FALSE>>
    /\ caller.submitted[i][3].thrown = UpdateNotSupported

----------------------------------------------------------------------------
(* C12 *)

UnresolvedWayNode ==
  "NotImplementedException: Unresolved waynodes are not supported"

\* source id id was given a local id by a node write before the k-th call
NodeWrittenBefore(i, k, id) ==
  \E j \in 1..(k - 1) :
    /\ caller.submitted[i][j].accepted
    /\ caller.submitted[i][j].element.type = "Node"
    /\ caller.submitted[i][j].element.id = id

\* C12: a writePartial call for a way (not itself a repeated way) one of
\* whose node source ids no earlier node write has given a local id throws
\* the exception of an unresolved way node, in every state of the writer,
\* the one in which no node has been written included.
C12_UnresolvedWayNodeFails ==
  \A i \in DOMAIN writer :
    \A k \in DOMAIN caller.submitted[i] :
      LET w == caller.submitted[i][k].element
      IN (/\ w.type = "Way"
          /\ ~WrittenBefore(i, k)
          /\ \E n \in DOMAIN w.nodes : ~NodeWrittenBefore(i, k, w.nodes[n]))
         => caller.submitted[i][k].thrown = UnresolvedWayNode

----------------------------------------------------------------------------
(* C13 *)

InvalidLatitude == "HootException: Invalid latitude conversion"
InvalidLongitude == "HootException: Invalid longitude conversion"

\* for whole degrees round(lat * 1e7) lies in [-900000000, 900000000] exactly
\* when lat lies in [-90, 90], and likewise for the longitude and 180
LatitudeInRange(n) == -90 <= n.y /\ n.y <= 90
LongitudeInRange(n) == -180 <= n.x /\ n.x <= 180

\* C13: a node write throws the invalid-latitude exception whenever
\* round(lat * 1e7) is outside [-900000000, 900000000] and the
\* invalid-longitude exception whenever round(lon * 1e7) is outside
\* [-1800000000, 1800000000], for every value, those whose nanodegrees do
\* not fit in 32 bits included; the latitude and longitude columns of the
\* rows of an accepted node are round(deg * 1e7).
C13_CoordinateRangeChecked ==
  \A i \in DOMAIN writer :
    \A k \in DOMAIN caller.submitted[i] :
      LET call == caller.submitted[i][k]
          n == call.element
      IN (n.type = "Node" /\ ~WrittenBefore(i, k))
         => /\ ~LatitudeInRange(n) => call.thrown = InvalidLatitude
            /\ (LatitudeInRange(n) /\ ~LongitudeInRange(n))
                 => call.thrown = InvalidLongitude
            /\ (LatitudeInRange(n) /\ LongitudeInRange(n) /\ call.accepted)
                 => \A table \in {"current_nodes", "nodes"} :
                      LET rows == SectionRows(i, table)
                      IN \A r \in RowsOf(rows, LocalId(i, "Node", n.id)) :
                           /\ rows[r][2] = Num(n.y * COORDINATE_SCALE)
                           /\ rows[r][3] = Num(n.x * COORDINATE_SCALE)

----------------------------------------------------------------------------
(* C14 *)

\* a writePartial call on writer i has thrown since the writer was opened
WriteFailed(i) ==
  \E k \in DOMAIN caller.submitted[i] :
    caller.submitted[i][k].thrown # "none"

\* C14: once a writePartial call has thrown, the writer produces no output
\* script for the stream: no combined file, no rewritten file, whatever was
\* written before the failure.
C14_NoScriptAfterFailedWrite ==
  \A i \in DOMAIN writer :
    WriteFailed(i)
    => /\ writer[i].sqlOutputFile = <<>>
       /\ writer[i].finalSqlOutputFile = <<>>
       /\ writer[i].pc \notin {"get_node", "get_way", "get_relation",
                               "get_changeset", "lock", "rewrite", "exec"}

----------------------------------------------------------------------------
(* C15 *)

InvalidUserId == "HootException: Invalid changeset user ID"

\* C15: with a configured user id below 0 no changeset row is written, and
\* the call that has to emit the first changeset row (the write that fills
\* the first changeset, or finalizePartial with changes pending) throws the
\* invalid-user-id exception.
C15_NegativeUserIdRejected ==
  \A i \in DOMAIN writer :
    writer[i].conf.changesetUserId < 0
    => /\ SectionRows(i, "changesets") = <<>>
       /\ TableRows(writer[i].sqlOutputFile, "changesets") = <<>>
       /\ \A k \in DOMAIN caller.submitted[i] :
            (k = writer[i].maxChangesetSize
             /\ \A j \in 1..(k - 1) : caller.submitted[i][j].accepted)
            => ~caller.submitted[i][k].accepted
       /\ (writer[i].pc = "done" /\ ~NoDataWritten(writer[i])
            /\ writer[i].changesetData.changesInChangeset > 0)
            => writer[i].thrown = InvalidUserId

----------------------------------------------------------------------------
(* C16 *)

AlreadyOpen == "HootException: Database already open"

\* C16: a call of open on a writer that is open throws the already-open
\* exception and leaves the recorded url, the ids read from the database,
\* the writer's other state and the database as they were; a call of open
\* with a supported url on a writer that is closed (never opened, or closed
\* since) opens it and records the url.
C16_OpenWhileOpenFails ==
  [][\A i \in DOMAIN writer : \A url \in caller.urls :
       OpenUrl(i, url)
       => /\ writer[i].isOpen
               => /\ writer'[i] = [writer[i] EXCEPT !.thrown = AlreadyOpen]
                  /\ db' = db
          /\ (~writer[i].isOpen /\ isSupported(url))
               => /\ writer'[i].isOpen
                  /\ writer'[i].thrown = "none"
                  /\ writer'[i].outputUrl = url]_vars

\* an open writer that has read its ids from the database and written an
\* element has refused a call of open
C16_Witness ==
  \E i \in DOMAIN writer :
    /\ writer[i].isOpen
    /\ writer[i].thrown = AlreadyOpen
    /\ writer[i].mode = "offline"
    /\ writer[i].writeStats.nodesWritten = 1
    /\ writer[i].idMappings.currentNodeId = 4

----------------------------------------------------------------------------
(* C17 *)

\* the section temporary files writer i has created that are still on the
\* disk
FilesLeft(i) ==
  { f \in DOMAIN writer[i].tempFiles : writer[i].tempFiles[f].removals = 0 }

\* C17: when a writer is closed none of the section temporary files it has
\* created is still on the disk, in both modes, whether close followed
\* finalizePartial or the caller abandoned after open and some writes.
C17_NoTempFileSurvivesClose ==
  \A i \in DOMAIN writer :
    (~writer[i].isOpen /\ ~writer[i].crashed) => FilesLeft(i) = {}

----------------------------------------------------------------------------
(* C18 *)

UnsupportedUrl == "HootException: Could not open URL"

\* the last call on writer i was a writePartial or finalizePartial call that
\* threw
WriteOrFinalizeFailed(i) ==
  writer[i].thrown \notin {"none", AlreadyOpen, UnsupportedUrl}

\* C18: no section temporary file is removed more than once, and when a
\* writePartial or finalizePartial call has thrown, every section temporary
\* file created so far has been removed.
C18_TempFilesRemovedOnceAndOnFailure ==
  \A i \in DOMAIN writer :
    /\ \A f \in DOMAIN writer[i].tempFiles : writer[i].tempFiles[f].removals <= 1
    /\ WriteOrFinalizeFailed(i) => FilesLeft(i) = {}

----------------------------------------------------------------------------
(* C19 *)

\* the members of writer i, without what the caller and the disk keep of
\* its past (the number of calls made, the exception of the last call, the
\* url of the last open, the temporary files created, the copy of the script)
Members(i) ==
  [writer[i] EXCEPT !.calls = 0, !.thrown = "none", !.outputUrl = "",
                    !.tempFiles = <<>>, !.sqlFileCopy = <<>>]

\* C19: a closed writer has the state of a fresh one, so that what follows
\* behaves as on a fresh writer: the write statistics are 0, the next local
\* id of each kind and the current changeset id are 1, the changes count is
\* 0, the id maps, the unresolved index and the section store are empty,
\* and every other member is as the constructor leaves it.
C19_CloseResetsWriter ==
  \A i \in DOMAIN writer :
    (~writer[i].isOpen /\ ~writer[i].crashed)
    => /\ \A c \in DOMAIN writer[i].writeStats : writer[i].writeStats[c] = 0
       /\ writer[i].idMappings.currentNodeId = 1
       /\ writer[i].idMappings.currentWayId = 1
       /\ writer[i].idMappings.currentRelationId = 1
       /\ writer[i].changesetData.currentChangesetId = 1
       /\ writer[i].changesetData.changesInChangeset = 0
       /\ IsNull(writer[i].idMappings.nodeIdMap)
       /\ IsNull(writer[i].idMappings.wayIdMap)
       /\ IsNull(writer[i].idMappings.relationIdMap)
       /\ IsNull(writer[i].unresolvedRefs.unresolvedWaynodeRefs)
       /\ IsNull(writer[i].unresolvedRefs.unresolvedRelationRefs)
       /\ writer[i].outputSections = EmptyMap
       /\ Members(i) = OsmApiDbBulkWriter(writer[i].conf)

----------------------------------------------------------------------------
(* C20 *)

\* the database holds the values of the setval statements of writer i
Reserved(i) ==
  /\ writer[i].lockElementIdsSql # <<>>
  /\ \A k \in DOMAIN writer[i].lockElementIdsSql :
       LET line == writer[i].lockElementIdsSql[k]
       IN IsSetval(line) => db[line[4]] = SetvalValue(line)

\* writer i, in online mode, takes a step of finalizePartial from phase
\* from to phase to
Phase(i, from, to) ==
  /\ writer[i].mode = "online"
  /\ writer[i].pc = from
  /\ writer'[i].pc = to

\* C20: in online mode finalizePartial assembles the script with local ids,
\* then reads the sequences and executes the setval transaction, then
\* rewrites the script, then copies it if a location is configured and
\* executes it if configured: the rewrite begins only when the reservation
\* is in the database, the script is loaded only after the rewrite and with
\* the reservation in the database, and the script loaded and copied is the
\* rewritten one.
C20_OnlineFinalizeOrder ==
  [][\A i \in DOMAIN writer :
       /\ (writer[i].mode = "online" /\ writer'[i].pc # writer[i].pc)
            => \/ Phase(i, "idle", "get_node") \/ Phase(i, "idle", "done")
               \/ Phase(i, "get_node", "get_way")
               \/ Phase(i, "get_way", "get_relation")
               \/ Phase(i, "get_relation", "get_changeset")
               \/ Phase(i, "get_changeset", "lock")
               \/ Phase(i, "lock", "rewrite") \/ Phase(i, "lock", "done")
               \/ Phase(i, "rewrite", "exec") \/ Phase(i, "rewrite", "done")
               \/ Phase(i, "exec", "done") \/ Phase(i, "done", "idle")
       /\ Phase(i, "idle", "get_node")
            => /\ writer'[i].sqlOutputFile # <<>>
               /\ writer'[i].lockElementIdsSql = <<>>
               /\ db' = db
       /\ Phase(i, "lock", "rewrite")
            => /\ Reserved(i)'
               /\ writer'[i].finalSqlOutputFile = writer[i].sqlOutputFile
       /\ Phase(i, "rewrite", "exec")
            => /\ Reserved(i)
               /\ db' = db
               /\ writer'[i].finalSqlOutputFile
                    = _updateIdOffsetsInNewFile(writer[i],
                                                writer[i].sqlOutputFile).finalSqlOutputFile
       /\ Phase(i, "exec", "done")
            => /\ Reserved(i)
               /\ db' = execNoPrepare(db, writer[i].finalSqlOutputFile)
               /\ writer[i].sqlFileCopyLocation # <<>>
                    => writer'[i].sqlFileCopy = writer[i].finalSqlOutputFile]_vars

\* an online finalizePartial has run to its end: ids reserved, script
\* rewritten with an offset, copied and loaded
C20_Witness ==
  \E i \in DOMAIN writer :
    /\ writer[i].mode = "online"
    /\ writer[i].pc = "done"
    /\ Live(writer[i])
    /\ Reserved(i)
    /\ writer[i].finalSqlOutputFile # writer[i].sqlOutputFile
    /\ writer[i].sqlFileCopy = writer[i].finalSqlOutputFile
    /\ writer[i].sqlFileCopy # <<>>

----------------------------------------------------------------------------
(* C21 *)

\* the base of a kind that the second pass of writer i adds: the value of
\* the sequence read by _getLatestIdsFromDb
Base(i, kind) ==
  CASE kind = "Changeset" -> writer[i].changesetData.currentChangesetId
    [] kind = "Node" -> writer[i].idMappings.currentNodeId
    [] kind = "Way" -> writer[i].idMappings.currentWayId
    [] kind = "Relation" -> writer[i].idMappings.currentRelationId

\* the number of elements of a kind writer i has written
Written(i, kind) ==
  CASE kind = "Node" -> writer[i].writeStats.nodesWritten
    [] kind = "Way" -> writer[i].writeStats.waysWritten
    [] kind = "Relation" -> writer[i].writeStats.relationsWritten

\* writer i in online mode has rewritten its script
Rewritten(i) ==
  /\ Scripted(i)
  /\ writer[i].mode = "online"
  /\ writer[i].finalSqlOutputFile # writer[i].sqlOutputFile

\* column c (from 1) of every row of a table is, after the second pass, the
\* column before it plus the base of the kind
ColumnOffset(i, table, c, kind) ==
  LET before == TableRows(writer[i].sqlOutputFile, table)
      after == TableRows(writer[i].finalSqlOutputFile, table)
  IN /\ Len(after) = Len(before)
     /\ \A k \in DOMAIN before :
          /\ Len(after[k]) >= c
          /\ toLong(after[k][c]) = toLong(before[k][c]) + Base(i, kind)

\* C21: the second pass adds to the member_id column of every row of
\* current_relation_members and relation_members the base of the kind in
\* the row's member_type column: the node base for Node, the way base for
\* Way, the relation base for Relation.
C21_MemberIdGetsBaseOfItsKind ==
  \A i \in DOMAIN writer :
    Rewritten(i) =>
      \A t \in MemberTables :
        LET before == TableRows(writer[i].sqlOutputFile, t)
            after == TableRows(writer[i].finalSqlOutputFile, t)
        IN /\ Len(after) = Len(before)
           /\ \A k \in DOMAIN before :
                before[k][2] \in { <<kind>> : kind \in Kinds }
                => toLong(after[k][3])
                     = toLong(before[k][3]) + Base(i, before[k][2][1])

----------------------------------------------------------------------------
(* C22 *)

\* the id columns of the tables (columns from 1) and the kind of each
IdColumns ==
  { <<"changesets", 1, "Changeset">> }
    \cup { <<t, 1, "Node">> : t \in {"current_nodes", "nodes"} }
    \cup { <<t, 4, "Changeset">> : t \in {"current_nodes", "nodes"} }
    \cup { <<t, 1, "Way">> : t \in {"current_ways", "ways"} }
    \cup { <<t, 2, "Changeset">> : t \in {"current_ways", "ways"} }
    \cup { <<t, 1, "Relation">> : t \in {"current_relations", "relations"} }
    \cup { <<t, 2, "Changeset">> : t \in {"current_relations", "relations"} }
    \cup { <<t, 1, "Way">> : t \in {"current_way_nodes", "way_nodes"} }
    \cup { <<t, 2, "Node">> : t \in {"current_way_nodes", "way_nodes"} }
    \cup { <<t, 1, "Node">> : t \in {"current_node_tags", "node_tags"} }
    \cup { <<t, 1, "Way">> : t \in {"current_way_tags", "way_tags"} }
    \cup { <<t, 1, "Relation">> : t \in {"current_relation_tags", "relation_tags"} }

\* C22: the second pass adds the reserved base to every id column of every
\* copy-data line of the script, table by table, whatever text the tag key,
\* tag value and role columns of the line hold.
C22_EveryIdColumnGetsItsBase ==
  \A i \in DOMAIN writer :
    Rewritten(i) =>
      \A c \in IdColumns : ColumnOffset(i, c[1], c[2], c[3])

----------------------------------------------------------------------------
(* C23 *)

\* the four bases of writer i are zero
ZeroBases(i) == \A kind \in IdKinds : Base(i, kind) = 0

\* the second pass over a script with the bases of writer i
Rewrite(i, script) == _updateIdOffsetsInNewFile(writer[i], script).finalSqlOutputFile

\* C23: with the four bases zero the second pass is idempotent: the second
\* pass over its own output gives that output again, line for line.
C23_ZeroBaseRewriteIdempotent ==
  \A i \in DOMAIN writer :
    (Rewritten(i) /\ ZeroBases(i))
    => Rewrite(i, writer[i].finalSqlOutputFile) = writer[i].finalSqlOutputFile

\* C23, as the code has it: with the four bases zero the second pass over
\* its own output gives that output and one more empty line at its end;
\* nothing else changes.
C23_ZeroBaseRewriteAppendsEmptyLine ==
  \A i \in DOMAIN writer :
    (Rewritten(i) /\ ZeroBases(i))
    => Rewrite(i, writer[i].finalSqlOutputFile)
         = writer[i].finalSqlOutputFile \o <<EmptyLine>>

\* a writer with zero bases has rewritten a script with a node whose tag
\* value ends in a space, a way and its way node
C23_Witness ==
  \E i \in DOMAIN writer :
    /\ Rewritten(i) /\ ZeroBases(i)
    /\ Len(TableRows(writer[i].finalSqlOutputFile, "current_node_tags")) > 0
    /\ Len(TableRows(writer[i].finalSqlOutputFile, "current_way_nodes")) > 0
    /\ \E k \in DOMAIN caller.submitted[i] :
         caller.submitted[i][k].element.tags = PaddedTag

----------------------------------------------------------------------------
(* C24 *)

\* a line of the assembled script that is no copy-data row: a statement, a
\* COPY header, the terminator, an empty line
NotDataRow(line) ==
  \/ line = <<>>
  \/ line = TerminatorLine
  \/ IsCopyHeader(line)
  \/ line \in { <<"BEGIN", SP, "TRANSACTION;">>, <<"COMMIT;">> }

\* C24: the second pass leaves every line that is no copy-data row unchanged
\* and in its position, and its output has as many lines as its input.
C24_RewriteKeepsOtherLines ==
  \A i \in DOMAIN writer :
    Rewritten(i) =>
      LET input == writer[i].sqlOutputFile
          output == writer[i].finalSqlOutputFile
      IN /\ Len(output) = Len(input)
         /\ \A k \in DOMAIN input :
              NotDataRow(input[k]) => k \in DOMAIN output /\ output[k] = input[k]

\* C24, as the code has it: the second pass leaves every line that is no
\* copy-data row unchanged and in its position, and its output has one line
\* more than its input, an empty line at its end.
C24_OtherLinesInPlace ==
  \A i \in DOMAIN writer :
    Rewritten(i) =>
      LET input == writer[i].sqlOutputFile
          output == writer[i].finalSqlOutputFile
      IN /\ Len(output) = Len(input) + 1
         /\ output[Len(output)] = EmptyLine
         /\ \A k \in DOMAIN input :
              NotDataRow(input[k]) => output[k] = input[k]

\* a writer has rewritten, with bases that are not zero, a script with rows
\* of nodes, ways and relations
C24_Witness ==
  \E i \in DOMAIN writer :
    /\ Rewritten(i)
    /\ \A kind \in Kinds : Base(i, kind) > 0 /\ Written(i, kind) > 0

----------------------------------------------------------------------------
(* C25 *)

\* the statements of the sequence_updates section of writer i: part of the
\* script in offline mode, the reservation transaction in online mode
SequenceUpdates(i) ==
  IF writer[i].mode = "offline"
    THEN writer[i].finalSqlOutputFile
    ELSE writer[i].lockElementIdsSql

\* C25: the sequence_updates section holds a setval for the way sequence
\* only if a way was written and one for the relation sequence only if a
\* relation was written, in both modes and from every value of the
\* sequences; a run that succeeds always emits those of changesets and nodes.
C25_SetvalOnlyForWrittenKinds ==
  \A i \in DOMAIN writer :
    Scripted(i) =>
      /\ \A kind \in {"Way", "Relation"} :
           SetvalValues(SequenceUpdates(i), kind) # {} => Written(i, kind) > 0
      /\ \A kind \in {"Changeset", "Node"} :
           SetvalValues(SequenceUpdates(i), kind) # {}

\* the changeset and node statements alone
ChangesetAndNodeSetvalEmitted ==
  \A i \in DOMAIN writer :
    Scripted(i) => \A kind \in {"Changeset", "Node"} :
                     SetvalValues(SequenceUpdates(i), kind) # {}

----------------------------------------------------------------------------
(* C26 *)

\* the copy sections of a script are each a COPY header, rows, the
\* terminator and then blanks empty lines before the next header or COMMIT;
\* the script starts with BEGIN TRANSACTION; and ends with COMMIT;
SectionsLaidOut(script, blanks) ==
  /\ script # <<>>
  /\ script[1] = <<"BEGIN", SP, "TRANSACTION;">>
  /\ script[Len(script)] = <<"COMMIT;">>
  /\ \A h \in DOMAIN script :
       IsCopyHeader(script[h]) =>
         \E e \in (h+1)..Len(script) :
           /\ script[e] = TerminatorLine
           /\ \A k \in (h+1)..(e-1) : ~NotDataRow(script[k])
  /\ \A e \in DOMAIN script :
       script[e] = TerminatorLine =>
         /\ e + blanks + 1 <= Len(script)
         /\ \A k \in (e+1)..(e+blanks) : script[k] = EmptyLine
         /\ \/ IsCopyHeader(script[e + blanks + 1])
            \/ script[e + blanks + 1] = <<"COMMIT;">>

\* C26: in the assembled script every copy section is its COPY header, its
\* rows and the terminator followed by exactly two empty lines before the
\* next section or COMMIT; the script starts with BEGIN TRANSACTION; and
\* ends with COMMIT;.
C26_SectionLayout ==
  \A i \in DOMAIN writer :
    Scripted(i) => SectionsLaidOut(writer[i].sqlOutputFile, 2)

\* C26, as the code has it: in the assembled script every copy section is
\* its COPY header, its rows and the terminator followed by exactly three
\* empty lines before the next section or COMMIT; the script starts with
\* BEGIN TRANSACTION; and ends with COMMIT;.
C26_SectionLayoutOfThree ==
  \A i \in DOMAIN writer :
    Scripted(i) => SectionsLaidOut(writer[i].sqlOutputFile, 3)

\* a writer has assembled a script with rows of nodes, ways and relations
C26_Witness ==
  \E i \in DOMAIN writer :
    /\ Scripted(i)
    /\ \A kind \in Kinds :
         Len(TableRows(writer[i].sqlOutputFile, MainTable(kind))) > 0
    /\ Len(TableRows(writer[i].sqlOutputFile, "current_relation_members")) > 0

----------------------------------------------------------------------------
(* C27 *)

\* no node, way or relation has been written to writer i
NothingWritten(i) == \A kind \in Kinds : Written(i, kind) = 0

\* C27: finalizePartial on a writer to which no node, way or relation has
\* been written returns at once, in both modes: it creates no script and no
\* section, writes no changeset row, and neither reads nor sets a sequence
\* nor executes anything (the writer is as it was, the database too, and no
\* phase of the reservation or of the execution follows).
C27_FinalizeOfNothingDoesNothing ==
  [][\A i \in DOMAIN writer :
       (FinalizePartial(i) /\ NothingWritten(i))
       => /\ writer'[i] = [Called(i) EXCEPT !.pc = "done"]
          /\ writer'[i].sqlOutputFile = <<>>
          /\ writer'[i].outputSections = writer[i].outputSections
          /\ writer'[i].tempFiles = writer[i].tempFiles
          /\ writer'[i].changesetData = writer[i].changesetData
          /\ writer'[i].lockElementIdsSql = <<>>
          /\ db' = db]_vars

\* finalizePartial has returned on an open online writer to which nothing
\* was written, against a database whose sequences have been used
C27_Witness ==
  \E i \in DOMAIN writer :
    /\ writer[i].pc = "done" /\ writer[i].isOpen /\ Live(writer[i])
    /\ writer[i].mode = "online"
    /\ NothingWritten(i)
    /\ caller.submitted[i] = <<>>
    /\ db = UsedDb

----------------------------------------------------------------------------
(* C28 *)

\* the escape of one character: two characters for backslash and for the
\* control characters 8 to 13, the character itself for any other
EscapeOf(c) ==
  CASE c = BS -> <<BS, BS>>
    [] c = BSP -> <<BS, "b">>
    [] c = TAB -> <<BS, "t">>
    [] c = LF -> <<BS, "n">>
    [] c = VT -> <<BS, "v">>
    [] c = FF -> <<BS, "f">>
    [] c = CR -> <<BS, "r">>
    [] OTHER -> <<c>>

RECURSIVE EscapeEach(_)
EscapeEach(s) ==
  IF s = <<>> THEN <<>> ELSE EscapeOf(Head(s)) \o EscapeEach(Tail(s))

\* C28: escape replaces backslash first and then the control characters 8
\* to 13 by their two-character escapes (so no backslash of an escape is
\* doubled), escape(a ++ b) = escape(a) ++ escape(b) for all texts a and b,
\* and escape is injective over texts that hold no backslash.
C28_EscapeIsInjectiveMorphism ==
  caller.escaped # <<>> =>
    /\ caller.escaped.a = EscapeEach(caller.a)
    /\ caller.escaped.b = EscapeEach(caller.b)
    /\ caller.escaped.ab = caller.escaped.a \o caller.escaped.b
    /\ (BS \notin Range(caller.a) /\ BS \notin Range(caller.b)
          /\ caller.a # caller.b)
       => caller.escaped.a # caller.escaped.b

\* two different texts without backslash, with control characters, have
\* been escaped
C28_Witness ==
  /\ caller.escaped # <<>>
  /\ caller.a = <<TAB, "t">> /\ caller.b = <<LF, TAB>>
  /\ caller.escaped.ab = <<BS, "t", "t", BS, "n", BS, "t">>

----------------------------------------------------------------------------
(* C29 *)

\* C29: no setval that the reservation of an online writer executes lowers
\* a sequence of the database: whatever the interleaving of two online
\* writers on the same sequences, the value of each sequence never
\* decreases.
C29_SequencesNeverDecrease ==
  [][\A seq \in DOMAIN db : db'[seq] >= db[seq]]_vars

----------------------------------------------------------------------------
(* C30 *)

\* this step is an accepted writePartial(e) on writer i
Accepts(i, e) ==
  caller.submitted'[i] =
    Append(caller.submitted[i],
           [element |-> e, accepted |-> TRUE, thrown |-> "none"])

\* the references to element e in the relations accepted by writer i so far:
\* pairs of the position of the relation in the stream and of the member in
\* the relation
PendingReferences(i, e) ==
  { km \in UNION { {k} \X DOMAIN caller.submitted[i][k].element.members :
                      k \in SubmittedOf(i, "Relation") } :
      LET call == caller.submitted[i][km[1]]
      IN /\ call.accepted
         /\ call.element.members[km[2]].type = e.type
         /\ call.element.members[km[2]].id = e.id }

\* the columns of the current_relation_members row for member m of relation r
\* with the local ids of the state
MemberRow(i, r, m) ==
  << Num(LocalId(i, "Relation", r.id)), <<r.members[m].type>>,
     Num(LocalId(i, r.members[m].type, r.members[m].id)),
     _escapeCopyToData(r.members[m].role), Num(m) >>

\* the row of reference km appears in current_relation_members in this step
RowEmitted(i, km) ==
  LET r == caller.submitted[i][km[1]].element
      before == Range(SectionRows(i, "current_relation_members"))
      after == Range(SectionRows(i, "current_relation_members")')
  IN MemberRow(i, r, km[2])' \in after \ before

\* C30: when a relation refers to a member that arrives later in the
\* stream, the row of the member is emitted when the member is written, and
\* it holds the local id of the relation, the 1-based index of the member in
\* the relation, the kind and the role of the member as recorded, and the
\* local id just given to the member.
C30_DeferredMemberRowEmitted ==
  [][\A i \in DOMAIN writer : \A e \in caller.feed :
       Accepts(i, e) =>
         \A km \in PendingReferences(i, e) : RowEmitted(i, km)]_vars

\* what the code does: of the references to a member that arrives later,
\* the row of the first one recorded is emitted when the member is written
FirstDeferredMemberRowEmitted ==
  [][\A i \in DOMAIN writer : \A e \in caller.feed :
       Accepts(i, e) =>
         \A km \in PendingReferences(i, e) :
           (\A other \in PendingReferences(i, e) :
              km[1] < other[1] \/ (km[1] = other[1] /\ km[2] <= other[2]))
           => RowEmitted(i, km)]_vars

----------------------------------------------------------------------------
(* C31 *)

\* the first local id writer i gives to an element of a kind: 1 in online
\* mode, the next id of the database at open in offline mode
StartId(i, kind) ==
  IF writer[i].mode = "online" THEN 1
  ELSE getNextId(caller.dbAtOpen[i], kind)

\* the current (next) id of a kind
CurrentId(st, kind) ==
  CASE kind = "Node" -> st.idMappings.currentNodeId
    [] kind = "Way" -> st.idMappings.currentWayId
    [] kind = "Relation" -> st.idMappings.currentRelationId

\* writer i is between writes that have all returned
AfterSuccessfulWrites(i) ==
  /\ Live(writer[i])
  /\ writer[i].isOpen
  /\ writer[i].pc = "idle"
  /\ AllAccepted(i)

\* C31: after any sequence of successful writes, the local id of the k-th
\* element of a kind (in arrival order) is start + k - 1, where start is 1 in
\* online mode (the next id of the database at open in offline mode), the
\* id map of the kind is injective, every mapped local id is smaller than
\* the next id of the kind, and the next id is start + the number written.
C31_LocalIdsDenseInArrivalOrder ==
  \A i \in DOMAIN writer : \A kind \in Kinds :
    AfterSuccessfulWrites(i) /\ SubmittedOf(i, kind) # {}
    => LET sub == caller.submitted[i]
           map == Deref(knownElementMap(writer[i], kind))
       IN /\ DOMAIN map = { sub[k].element.id : k \in SubmittedOf(i, kind) }
          /\ \A k \in SubmittedOf(i, kind) :
               map[sub[k].element.id] =
                 StartId(i, kind)
                   + Cardinality({ j \in SubmittedOf(i, kind) : j < k })
          /\ \A a, b \in DOMAIN map : map[a] = map[b] => a = b
          /\ \A a \in DOMAIN map : map[a] < CurrentId(writer[i], kind)
          /\ CurrentId(writer[i], kind)
               = StartId(i, kind) + Cardinality(SubmittedOf(i, kind))

\* two nodes and a way were written in offline mode to a database whose
\* sequences have been used: the nodes have the local ids 3 and 4, the way 2
C31_Witness ==
  \E i \in DOMAIN writer :
    /\ AfterSuccessfulWrites(i)
    /\ writer[i].mode = "offline"
    /\ caller.dbAtOpen[i] = UsedDb
    /\ Cardinality(SubmittedOf(i, "Node")) = 2
    /\ Cardinality(SubmittedOf(i, "Way")) = 1
    /\ CurrentId(writer[i], "Node") = 5
    /\ CurrentId(writer[i], "Way") = 3

----------------------------------------------------------------------------
(* C32 *)

\* this step is finalizePartial on writer i after at least one element was
\* written
FinalizeOfWritten(i) == FinalizePartial(i) /\ ~NoDataWritten(writer[i])

\* C32: at finalize of a non-empty stream, if the current changeset has
\* changes, exactly one more changeset row is flushed, with the current
\* changeset id and num_changes = the changes of the current changeset; if
\* it has none, no changeset row is flushed; in both cases at least one
\* changeset is recorded.
C32_FinalizeFlushesOpenChangeset ==
  [][\A i \in DOMAIN writer :
       FinalizeOfWritten(i)
       => LET cd == writer[i].changesetData
              before == SectionRows(i, "changesets")
              after == TableRows(SectionLines(writer'[i], "changesets"),
                                 "changesets")
          IN /\ cd.changesInChangeset > 0
                => /\ Len(after) = Len(before) + 1
                   /\ SubSeq(after, 1, Len(before)) = before
                   /\ after[Len(after)][1] = Num(cd.currentChangesetId)
                   /\ after[Len(after)][9] = Num(cd.changesInChangeset)
             /\ cd.changesInChangeset = 0 => after = before
             /\ writer'[i].changesetData.changesetsWritten >= 1
             /\ Len(after) >= 1]_vars

\* what the code does: a finalizePartial that comes to the assembled script
\* has flushed the open changeset as C32 says
FinalizeThatReturnsFlushesOpenChangeset ==
  [][\A i \in DOMAIN writer :
       (FinalizeOfWritten(i) /\ Live(writer'[i]))
       => LET cd == writer[i].changesetData
              before == SectionRows(i, "changesets")
              after == TableRows(SectionLines(writer'[i], "changesets"),
                                 "changesets")
          IN /\ cd.changesInChangeset > 0
                => /\ after = Append(before, after[Len(after)])
                   /\ after[Len(after)][1] = Num(cd.currentChangesetId)
                   /\ after[Len(after)][9] = Num(cd.changesInChangeset)
             /\ cd.changesInChangeset = 0 => after = before
             /\ writer'[i].changesetData.changesetsWritten >= 1
             /\ Len(after) >= 1]_vars

----------------------------------------------------------------------------
(* C33 *)

\* the references that wait in the unresolved relation references of a
\* writer state, by the element they wait for
UnresolvedRelationRefs(st) ==
  IF IsNull(st.unresolvedRefs.unresolvedRelationRefs) THEN EmptyMap
  ELSE Deref(st.unresolvedRefs.unresolvedRelationRefs)

\* no row of the member tables of the script of writer i is the row of a
\* reference that is still unresolved
UnresolvedMembersHaveNoRow(i) ==
  \A key \in DOMAIN UnresolvedRelationRefs(writer[i]) :
    LET ref == UnresolvedRelationRefs(writer[i])[key]
    IN /\ MemberRows(TableRows(writer[i].sqlOutputFile,
                               "current_relation_members"),
                     ref.sourceDbRelationId, 5,
                     ref.relationMemberSequenceId) = {}
       /\ MemberRows(TableRows(writer[i].sqlOutputFile, "relation_members"),
                     ref.sourceDbRelationId, 6,
                     ref.relationMemberSequenceId) = {}

\* C33: the member references still unresolved at finalize have no
\* relation-member row in the script, and the unresolved-relation-members
\* statistic equals the number of references that remain in the unresolved
\* relation references.
C33_UnresolvedMembersReported ==
  \A i \in DOMAIN writer :
    Scripted(i)
    => /\ UnresolvedMembersHaveNoRow(i)
       /\ writer[i].writeStats.relationMembersUnresolved
            = Cardinality(DOMAIN UnresolvedRelationRefs(writer[i]))

\* what the code does: the unresolved references have no row in the script,
\* and the statistic is 0 whatever remains unresolved
UnresolvedMembersDroppedAndNotCounted ==
  \A i \in DOMAIN writer :
    /\ Scripted(i) => UnresolvedMembersHaveNoRow(i)
    /\ writer[i].writeStats.relationMembersUnresolved = 0

----------------------------------------------------------------------------
(* C34 *)

\* an entry of the unresolved relation references of writer i waits for an
\* element that is in the id map of its kind
StaleReferences(i) ==
  { key \in DOMAIN UnresolvedRelationRefs(writer[i]) :
      /\ ~IsNull(knownElementMap(writer[i], key[1]))
      /\ contains(Deref(knownElementMap(writer[i], key[1])), key[2]) }

\* the last writePartial call on writer i has returned
LastWriteCompleted(i) ==
  /\ caller.submitted[i] # <<>>
  /\ caller.submitted[i][Len(caller.submitted[i])].accepted
  /\ Live(writer[i])

\* C34: after every completed writePartial, no entry of the unresolved
\* relation references is keyed by a (kind, source id) that is in the id map
\* of that kind.
C34_NoReferenceToMappedElement ==
  \A i \in DOMAIN writer : LastWriteCompleted(i) => StaleReferences(i) = {}

\* what the code does: the same, in the streams whose writePartial calls have
\* all returned
NoReferenceToMappedElementAfterSuccesses ==
  \A i \in DOMAIN writer :
    (LastWriteCompleted(i) /\ AllAccepted(i)) => StaleReferences(i) = {}

----------------------------------------------------------------------------
(* C35 *)

\* the positions of the setval statements and of the COPY headers of a text
SetvalPositions(text) == { k \in DOMAIN text : IsSetval(text[k]) }
CopyPositions(text) == { k \in DOMAIN text : IsCopyHeader(text[k]) }

\* C35: in offline mode the assembled script holds the statements of the
\* sequence_updates section, all of them before the changesets section (and
\* before every other COPY section); in online mode the script, assembled or
\* rewritten, holds no setval statement, and the statements are those of
\* the reservation executed before the script.
C35_SequenceUpdatesInScriptOfflineOnly ==
  \A i \in DOMAIN writer :
    Scripted(i)
    => LET script == writer[i].sqlOutputFile
           updates == SectionLines(writer[i], "sequence_updates")
       IN /\ SetvalPositions(updates) # {}
          /\ writer[i].mode = "offline"
             => /\ { script[k] : k \in SetvalPositions(script) }
                     = { updates[k] : k \in SetvalPositions(updates) }
                /\ Cardinality(SetvalPositions(script))
                     = Cardinality(SetvalPositions(updates))
                /\ TableLines(script, "changesets") # <<>>
                /\ \A k \in SetvalPositions(script) :
                     \A h \in CopyPositions(script) : k < h
          /\ writer[i].mode = "online"
             => /\ SetvalPositions(script) = {}
                /\ SetvalPositions(writer[i].finalSqlOutputFile) = {}
                /\ writer[i].lockElementIdsSql # <<>>
                /\ { updates[k] : k \in SetvalPositions(updates) }
                     \subseteq Range(writer[i].lockElementIdsSql)

\* an offline writer has assembled the script of a node and a way: three
\* setval statements precede the changesets section
C35_Witness ==
  \E i \in DOMAIN writer :
    /\ Scripted(i)
    /\ writer[i].mode = "offline"
    /\ Cardinality(SetvalPositions(writer[i].sqlOutputFile)) = 3
    /\ TableLines(writer[i].sqlOutputFile, "changesets") # <<>>

\* an online writer has assembled and rewritten the script of a node, a way
\* and a relation: the reservation has four setval statements, the script
\* has the changesets section and no setval statement
NoSequenceUpdatesInOnlineScript ==
  \E i \in DOMAIN writer :
    /\ Scripted(i)
    /\ writer[i].mode = "online"
    /\ Cardinality(SetvalPositions(writer[i].lockElementIdsSql)) = 4
    /\ TableLines(writer[i].finalSqlOutputFile, "changesets") # <<>>
    /\ SetvalPositions(writer[i].finalSqlOutputFile) = {}

----------------------------------------------------------------------------
(* C36 *)

\* C36: after finalize the changesets-written counter equals the number of
\* rows of the changesets section of the script.
C36_ChangesetsWrittenCountsRows ==
  \A i \in DOMAIN writer :
    Scripted(i)
    => writer[i].changesetData.changesetsWritten
         = Len(TableRows(writer[i].sqlOutputFile, "changesets"))

\* what the code does: a row flushed by rotation is counted, the row flushed
\* at finalize is counted only when no row was flushed before it
ChangesetsWrittenCountsRotations ==
  \A i \in DOMAIN writer :
    Scripted(i)
    => LET rows == Column(TableRows(writer[i].sqlOutputFile, "changesets"), 9)
           rotated == { k \in DOMAIN rows : rows[k] = writer[i].maxChangesetSize }
       IN writer[i].changesetData.changesetsWritten
            = IF rotated = {} THEN 1 ELSE Cardinality(rotated)

----------------------------------------------------------------------------
(* C37 *)

\* C37: after any sequence of writes the relation-members-written counter
\* equals the number of rows of the current_relation_members section.
C37_MembersWrittenCountsRows ==
  \A i \in DOMAIN writer :
    (Live(writer[i]) /\ writer[i].isOpen /\ writer[i].pc = "idle")
    => writer[i].writeStats.relationMembersWritten
         = Len(SectionRows(i, "current_relation_members"))

\* the members of the relations given to writer i
MembersSubmitted(i) ==
  UNION { {k} \X DOMAIN caller.submitted[i][k].element.members :
            k \in SubmittedOf(i, "Relation") }

\* what the code does: the counter is the number of rows plus the number of
\* members of the relations written, resolved or not
MembersWrittenCountsRowsAndMembers ==
  \A i \in DOMAIN writer :
    AfterSuccessfulWrites(i)
    => writer[i].writeStats.relationMembersWritten
         = Len(SectionRows(i, "current_relation_members"))
             + Cardinality(MembersSubmitted(i))

----------------------------------------------------------------------------
(* C38 *)

\* the current table of each kind and its changeset_id column
ChangesetColumn ==
  { <<"current_nodes", 4>>, <<"current_ways", 2>>, <<"current_relations", 2>> }

\* the element rows of a script that carry a changeset id: pairs of a table
\* and a position in the table
RowsOfChangeset(script, cid) ==
  UNION { { <<tc[1], k>> : k \in { j \in DOMAIN TableRows(script, tc[1]) :
                                     toLong(TableRows(script, tc[1])[j][tc[2]]) = cid } } :
          tc \in ChangesetColumn }

\* the changeset ids that the element rows of a script carry
ChangesetIdsCarried(script) ==
  UNION { Range(Column(TableRows(script, tc[1]), tc[2])) : tc \in ChangesetColumn }

\* every changeset id carried by an element row of the script is the id of
\* exactly one changeset row, whose num_changes is the number of element
\* rows that carry the id
ChangesetsMatchElements(script) ==
  LET changesets == TableRows(script, "changesets")
  IN \A cid \in ChangesetIdsCarried(script) :
       LET rows == { k \in DOMAIN changesets : toLong(changesets[k][1]) = cid }
       IN /\ Cardinality(rows) = 1
          /\ \A k \in rows :
               toLong(changesets[k][9]) = Cardinality(RowsOfChangeset(script, cid))

\* C38: in the script produced by a successful finalize (the rewritten one
\* in online mode), every changeset_id carried by a node, way or relation row
\* is the id of exactly one row of the changesets section, and the
\* num_changes of that row is the number of element rows carrying the id.
C38_ChangesetRowsMatchElementRows ==
  \A i \in DOMAIN writer :
    Scripted(i) => ChangesetsMatchElements(writer[i].finalSqlOutputFile)

\* the same of the streams whose writes all returned
ChangesetRowsMatchElementRowsAfterSuccesses ==
  \A i \in DOMAIN writer :
    (Scripted(i) /\ AllAccepted(i))
    => ChangesetsMatchElements(writer[i].finalSqlOutputFile)

\* the same of the script as assembled, before the rewrite of online mode
ChangesetRowsMatchElementRowsAsAssembled ==
  \A i \in DOMAIN writer :
    (Scripted(i) /\ AllAccepted(i))
    => ChangesetsMatchElements(writer[i].sqlOutputFile)

----------------------------------------------------------------------------
(* C39 *)

\* the temporary files writer state st has created for a section
FilesOf(st, section) ==
  { k \in DOMAIN st.tempFiles : st.tempFiles[k].section = section }

\* in this step writer i comes to write a changeset row, on rotation or at
\* finalize, and the changesets section does not exist: the row is written
\* through the null stream of a section that was never created
RowWrittenToMissingSection(i) ==
  /\ ~writer[i].crashed
  /\ writer'[i].crashed
  /\ "changesets" \notin DOMAIN writer'[i].outputSections
  /\ writer'[i].changesetData.currentChangesetId # 1
  /\ \/ writer'[i].changesetData.changesInChangeset = writer[i].maxChangesetSize
     \/ FinalizeOfWritten(i) /\ writer[i].changesetData.changesInChangeset > 0

\* C39: whenever a changeset row is written, the changesets section has
\* been created with its COPY header, whatever the first changeset id (1 in
\* online mode, the value fetched from the database at open in offline
\* mode): no row is written to a section that does not exist, and the
\* section is created at most once.
C39_ChangesetRowsOnlyInCreatedSection ==
  [][\A i \in DOMAIN writer :
       /\ ~RowWrittenToMissingSection(i)
       /\ Cardinality(FilesOf(writer'[i], "changesets")) <= 1
       /\ "changesets" \in DOMAIN writer'[i].outputSections
          => IsCopyHeader(Head(SectionLines(writer'[i], "changesets")))]_vars

\* what the code does: the section is created at most once and begins with
\* its COPY header, and a row is written to a section that does not exist
\* only if the first changeset id fetched at open was not 1
ChangesetSectionCreatedForFirstIdOne ==
  [][\A i \in DOMAIN writer :
       /\ RowWrittenToMissingSection(i)
          => /\ writer[i].mode = "offline"
             /\ getNextId(caller.dbAtOpen[i], "Changeset") # 1
       /\ Cardinality(FilesOf(writer'[i], "changesets")) <= 1
       /\ "changesets" \in DOMAIN writer'[i].outputSections
          => IsCopyHeader(Head(SectionLines(writer'[i], "changesets")))]_vars

----------------------------------------------------------------------------
(* C40 *)

\* this step is a writePartial call on writer i that threw
WriteThrows(i) ==
  /\ Len(caller.submitted'[i]) = Len(caller.submitted[i]) + 1
  /\ writer'[i].thrown # "none"
  /\ ~writer'[i].crashed

\* the state of a writer that C40 speaks of: the next local ids and the id
\* maps, the changeset bounding box and change count (with the rest of the
\* changeset data), the write statistics and the rows of every section
WriterState(st) ==
  [idMappings |-> st.idMappings, changesetData |-> st.changesetData,
   writeStats |-> st.writeStats, unresolvedRefs |-> st.unresolvedRefs,
   sections |-> [t \in DOMAIN st.outputSections |-> st.outputSections[t].lines]]

\* C40: a writePartial that fails (duplicate source id, invalid latitude or
\* longitude, unresolved way node) leaves the writer state unchanged.
C40_FailedWriteChangesNothing ==
  [][\A i \in DOMAIN writer :
       WriteThrows(i) => WriterState(writer'[i]) = WriterState(writer[i])]_vars

\* what the code does: a duplicate way or relation changes nothing, and a
\* failed write of any kind leaves the write statistics and the change
\* count as they were
FailedWriteKeepsCounters ==
  [][\A i \in DOMAIN writer :
       WriteThrows(i)
       => /\ writer'[i].writeStats = writer[i].writeStats
          /\ writer'[i].changesetData.changesInChangeset
               = writer[i].changesetData.changesInChangeset
          /\ (writer'[i].thrown = UpdateNotSupported
                /\ caller.submitted'[i][Len(caller.submitted'[i])].element.type
                     # "Node")
             => WriterState(writer'[i]) = WriterState(writer[i])]_vars

====
